---- MODULE Spec2Model ----
(***************************************************************************)
(* Model of the adaptive transfer pipeline of                              *)
(* src/java/scripts/download-channel.js (class DownloadChannel), and of    *)
(* three helpers of the bot: RateLimiter (src/unnamed/part_000), the send  *)
(* loop of src/bot.js and ErrorHandler (src/unnamed/part_001).             *)
(*                                                                         *)
(* Specifications that share this module:                                  *)
(*   SpecRetry  retryOperation, one call, with precisionDelay              *)
(*   SpecSpeed  speedMonitor.updateSpeed under a stream of samples         *)
(*   Spec       configureDownload / downloadChannel / processBatch /       *)
(*              downloadBatch / uploadBatch / cleanupBatch                 *)
(*   SpecBatch  processBatch on the first page of a run, with fairness     *)
(*   SpecFetch  one worker of downloadBatch with its downloadMessage calls *)
(*   SpecDeliver  one call of uploadMessage                                *)
(*   SpecFlood  updateFloodWaitHistory under any stream of reports         *)
(*   SpecRate   checkRateLimit in the states of both controllers           *)
(*   SpecPage   the batches of a page that is wider than one batch         *)
(*   SpecLimiter  RateLimiter.waitIfNeeded under concurrent callers        *)
(*   SpecSend   sendRateLimitedMessage and processMessageQueue of one user *)
(*   SpecWrite  ErrorHandler.retryWriteOperation for two operation ids     *)
(*                                                                         *)
(* The rate budget (adaptiveDelayMultiplier, optimalRequestRate and the    *)
(* flood wait history) is followed in SpecFlood and SpecRate; the other    *)
(* specifications do not read it and leave it as the constructor made it.  *)
(*                                                                         *)
(* Numbers: the stabilization factor is kept in thousandths (3.0 is 3000), *)
(* throughput in hundredths of Mbps (25 Mbps is 2500), delays in           *)
(* milliseconds; a division rounds down, as setTimeout truncates a delay.  *)
(* The clock of the RateLimiter is in seconds.                             *)
(***************************************************************************)
EXTENDS Integers, Sequences, FiniteSets, TLC

VARIABLES
  \* speedMonitor and the boost flag (src lines 103-115, 82)
  sm_F,            \* speedMonitor.stabilizationFactor, in thousandths
  sm_low,          \* speedMonitor.consecutiveLowSpeed
  sm_speed,        \* speedMonitor.currentSpeed, in hundredths of Mbps
  speedBoostMode,  \* this.speedBoostMode
  sm_highRun,      \* history: samples >= 30 Mbps in a row, counted up to HighRunCap
  sm_dir,          \* history: what the last sample did to the factor: -1, 0, 1
  sm_lowRun,       \* history: samples < 25 Mbps in a row, counted up to LowRunCap
  \* one call of retryOperation (src lines 453-490)
  ro_pc,           \* "loop", "returned", "thrown", "fellThrough"
  ro_attempt,      \* the loop variable attempt
  ro_maxRetries,   \* the parameter maxRetries
  ro_calls,        \* history: invocations of operation()
  ro_nTransient,   \* history: failures classified Transient
  ro_nFatal,       \* history: failures classified Fatal
  ro_nFlood,       \* history: FLOOD_WAIT failures with waitTime <= 300
  ro_nFloodOver,   \* history: FLOOD_WAIT failures with waitTime > 300
  ro_lastErr,      \* the error caught last, NoErr before the first failure
  ro_slept,        \* the delay of the last precisionDelay, in ms
  \* the checkpoint store and the choices of configureDownload
  store,           \* lastSelection.messageOffsetId as persisted
  uploadMode,      \* this.uploadMode
  selectiveMode,   \* this.selectiveMode
  startFromMessageId,
  \* downloadChannel
  pc,              \* where the run stands
  offsetMsgId,     \* the parameter offsetMsgId of the running downloadChannel
  messages,        \* the page getMessages returned, a sequence of ids
  toProcess,       \* messagesToProcess, a sequence of ids
  batchStart,      \* the loop variable i of the batch loop
  totalMessages,
  totalProcessedMessages,
  \* downloadBatch
  batch,           \* the messages of the running batch, a sequence of ids
  w_pc,            \* per index: "run", "ok", "failed"
  w_retry,         \* per index: retryCount
  dm_attempt,      \* per index: attempt of the running downloadMessage call
  \* what downloadBatch returns
  downloadedData,  \* the ids of the records, in order
  d_withPath,      \* ids whose record has a mediaPath
  d_failed,        \* ids whose record has failed: true
  \* uploadBatch
  currentIndex,
  uploadStarted,   \* queue indexes with uploadStarted
  uploadCompleted, \* queue indexes with uploadCompleted
  uploadResults,   \* sequence of [id, success]
  um_pc,           \* per index, its uploadMessage call: "idle", "loop", "inSink",
                   \* "finalSink", "hung", "true", "false" (what it returned)
  um_attempt,      \* per index: attempt of uploadMessage
  \* processBatch and the connection
  connectionHealth, \* this.connectionHealth
  pb_runs,         \* history: runs of processBatch for the current batch, counted
                   \* up to MaxRuns
  cleanedUp,       \* history: ids whose file cleanupBatch deleted in this batch
  \* history, kept for the properties
  runOffset,       \* the checkpoint configureDownload handed to this run
  fetchDone,       \* ids of the batch in the order their workers finished
  deliverStarts,   \* ids in the order uploadBatch started their delivery
  selected,        \* ids this run put in messagesToProcess
  fetchedOk,       \* ids a worker of this run fetched
  fetchAttempted,  \* ids this run called downloadMessage for
  sinkCalled,      \* ids this run handed to the sink
  delivered,       \* ids the sink accepted in this run
  justSaved,       \* TRUE right after downloadChannel saved the checkpoint
  \* one worker of downloadBatch with its downloadMessage calls (SpecFetch)
  df_pc,           \* "idle", "try", "ladder", "thrown", "returned", "failed"
  df_isSingleFile, \* the parameter isSingleFile of downloadMessage
  df_nameMarked,   \* the file name of the document contains FILE_REFERENCE_EXPIRED
  df_expectedSize, \* the size hint of the message, 0 when it has none
  df_attempt,      \* attempt of the running downloadMessage call
  df_retryCount,   \* retryCount of the worker
  df_strategyAttempt, \* the loop variable of the refresh ladder
  df_onDisk,       \* the size of the file at mediaPath, NoFile when there is none
  df_thrown,       \* the message of the error downloadMessage threw last
  df_calls,        \* history: calls of downloadMessageMedia, counted up to MaxFetchCalls
  df_onlyTransient, \* history: every call so far failed with a Transient error
  df_lastOutcome,  \* history: how the last call of the collaborator ended
  df_before,       \* history: attempt when the last failure was caught
  df_ladderEnd,    \* history: "none", "ok", "failed": how the ladder just ended
  df_refreshLog,   \* history: the refresh calls of the last ladder run
  \* one call of uploadMessage (SpecDeliver)
  ul_pc,           \* "idle", "loop", "final", "true", "false" (what it returned)
  ul_isSingleFile, \* the parameter isSingleFile of uploadMessage
  ul_configured,   \* this.uploadMode && this.targetChannelId
  ul_attempt,      \* attempt
  ul_lastErr,      \* the kind of the error caught last, "none" before the first
  ul_calls,        \* history: calls of uploadMessageToChannel
  ul_onlyTransient, \* history: every call so far failed with a Transient error
  \* the adaptive rate budget (SpecRate)
  adaptiveDelayMultiplier, \* this.adaptiveDelayMultiplier, in hundredths
  optimalRequestRate,      \* this.optimalRequestRate, requests per minute, rounded down
  floodWaitHistory,        \* the ages of its entries in minutes, oldest first
  requestsInLastMinute,    \* the number of its entries
  rl_over,         \* history: the last checkRateLimit found the window above the ceiling
  rl_slept,        \* history: the delay the last checkRateLimit handed to setTimeout,
                   \* in hundredths of a millisecond
  messageLimit,    \* the limit handed to getMessages, MESSAGE_LIMIT_CONFIG scaled down
  \* RateLimiter (SpecLimiter)
  lastMessageTime, \* this.lastMessageTime, in seconds
  messageQueue,    \* this.messageQueue, the number of its entries
  isProcessingQueue,
  lim_now,         \* Date.now(), in seconds
  lim_pc,          \* per caller of waitIfNeeded: "idle", "sleep", or "run" for the
                   \* queue between the return and the end of messageFunction
  lim_wake,        \* per caller: when the timer of its sleep is due
  lim_returns,     \* history: the times at which waitIfNeeded returned
  \* the per-user send loop of the bot (SpecSend)
  processingQueue, \* the set of user ids that have a marker
  userQueue,       \* messageQueue.get(userId): the entries, each an id and its retries
  pmq_pc,          \* processMessageQueue: "idle", "loop", "reply", "threw"
  pmq_entry,       \* the entry the loop shifted last
  pmq_settled,     \* history: the ids whose promise was resolved
  pmq_sent,        \* history: ids pushed by sendRateLimitedMessage, counted
  \* ErrorHandler.retryWriteOperation (SpecWrite)
  retryAttempts,   \* this.retryAttempts: the count per operation id, 0 for no entry
  rw_pc,           \* per operation id: "idle", "running", "sleeping", "returned",
                   \* "returnedNull", "threw"
  rw_currentAttempts \* per operation id: currentAttempts of the innermost call

speedVars == <<sm_F, sm_low, sm_speed, speedBoostMode, sm_highRun, sm_dir,
               sm_lowRun>>
retryVars == <<ro_pc, ro_attempt, ro_maxRetries, ro_calls, ro_nTransient,
               ro_nFatal, ro_nFlood, ro_nFloodOver, ro_lastErr, ro_slept>>
cfgVars == <<store, uploadMode, selectiveMode, startFromMessageId>>
pageVars == <<offsetMsgId, messages, toProcess, batchStart, totalMessages>>
fetchVars == <<batch, w_pc, w_retry, dm_attempt, fetchDone>>
dataVars == <<downloadedData, d_withPath, d_failed>>
upVars == <<currentIndex, uploadStarted, uploadCompleted, uploadResults, um_pc,
            um_attempt, deliverStarts>>
histVars == <<runOffset, selected, fetchedOk, fetchAttempted, sinkCalled, delivered>>
pbVars == <<connectionHealth, pb_runs, cleanedUp>>
pipeVars == <<cfgVars, pc, pageVars, totalProcessedMessages, fetchVars, dataVars,
              upVars, histVars, justSaved, pbVars>>
dmVars == <<df_pc, df_isSingleFile, df_nameMarked, df_expectedSize, df_attempt,
            df_retryCount, df_strategyAttempt, df_onDisk, df_thrown, df_calls,
            df_onlyTransient, df_lastOutcome, df_before, df_ladderEnd,
            df_refreshLog>>
ulVars == <<ul_pc, ul_isSingleFile, ul_configured, ul_attempt, ul_lastErr, ul_calls,
            ul_onlyTransient>>
rlVars == <<adaptiveDelayMultiplier, optimalRequestRate, floodWaitHistory,
            requestsInLastMinute, rl_over, rl_slept>>
coreVars == <<speedVars, retryVars, pipeVars, dmVars, ulVars>>
limVars == <<lastMessageTime, messageQueue, isProcessingQueue, lim_now, lim_pc,
             lim_wake, lim_returns>>
sendVars == <<processingQueue, userQueue, pmq_pc, pmq_entry, pmq_settled, pmq_sent>>
writeVars == <<retryAttempts, rw_pc, rw_currentAttempts>>
botVars == <<limVars, sendVars, writeVars>>
extVars == <<rlVars, messageLimit, botVars>>
vars == <<coreVars, extVars>>

\* The rate budget as the constructor leaves it (lines 72-81)
InitRateIdle ==
  /\ adaptiveDelayMultiplier = 50
  /\ optimalRequestRate = 50
  /\ floodWaitHistory = <<>>
  /\ requestsInLastMinute = 0
  /\ rl_over = FALSE
  /\ rl_slept = 0


\* The callers of waitIfNeeded: two that call it directly and processQueue
DirectCallers == {"a", "b"}
Callers == DirectCallers \cup {"q"}

\* constructor(delayMs = 5000), in seconds
DelayMs == 5

\* The one user whose queue is followed, and the ids of the write operations
UserId == "u"
OpIds == {"w1", "w2"}
NoEntry == [id |-> 0, retries |-> 0]

\* A RateLimiter as its constructor leaves it; Date.now() is far from 0
InitLimiterIdle ==
  /\ lastMessageTime = 0
  /\ messageQueue = 0
  /\ isProcessingQueue = FALSE
  /\ lim_now = DelayMs
  /\ lim_pc = [c \in Callers |-> "idle"]
  /\ lim_wake = [c \in Callers |-> 0]
  /\ lim_returns = <<>>

\* const messageQueue = new Map(), const processingQueue = new Set()
InitSendIdle ==
  /\ processingQueue = {}
  /\ userQueue = <<>>
  /\ pmq_pc = "idle"
  /\ pmq_entry = NoEntry
  /\ pmq_settled = {}
  /\ pmq_sent = 0

\* An ErrorHandler as its constructor leaves it
InitWriteIdle ==
  /\ retryAttempts = [id \in OpIds |-> 0]
  /\ rw_pc = [id \in OpIds |-> "idle"]
  /\ rw_currentAttempts = [id \in OpIds |-> 0]

InitBotIdle == InitLimiterIdle /\ InitSendIdle /\ InitWriteIdle

Min(a, b) == IF a <= b THEN a ELSE b
Max(a, b) == IF a >= b THEN a ELSE b

(***************************************************************************)
(* Bounds of the model                                                     *)
(***************************************************************************)
MaxRetriesArg == 5     \* maxRetries ranges over 1..MaxRetriesArg
HighRunCap == 21       \* consecutive high samples are counted up to here
LowRunCap == 5         \* consecutive low samples are counted up to here

(***************************************************************************)
(* Program constants                                                       *)
(***************************************************************************)
FactorStart == 3000          \* stabilizationFactor: 3.0
FactorMax == 5000            \* Math.min(5.0, ...)
FactorFloor == 2000          \* Math.max(2.0, ...)
FactorMidCap == 4000         \* Math.min(4.0, ...)
LowSpeedThreshold == 2500    \* currentSpeedMbps < 25
HighSpeedThreshold == 3000   \* currentSpeedMbps >= 30
EmergencyBoostAfter == 3     \* consecutiveLowSpeed > 3
RetryAfterCap == 300         \* waitTime <= 300
SPEED_STABILIZATION_DELAY == 20

\* The throughput samples fed to updateSpeed, around both thresholds.
SpeedSamples == {1000, 1996, 2499, 2500, 2996, 3000, 4000}
\* The waits a FLOOD_WAIT_<n> error carries, in seconds, around the cap.
FloodWaits == {2, 300, 301}

(***************************************************************************)
(* speedMonitor.updateSpeed                                                *)
(***************************************************************************)
\* Math.min(5.0, stabilizationFactor * 1.25)
IncreaseLow_NoCap(F) == (F * 125) \div 100
IncreaseLow(F) == Min(FactorMax, (F * 125) \div 100)

\* Math.max(2.0, stabilizationFactor * 0.95)
DecreaseHigh_Slow(F) == Max(FactorFloor, (F * 99) \div 100)
DecreaseHigh(F) == Max(FactorFloor, (F * 95) \div 100)

\* Math.min(4.0, stabilizationFactor * 1.15)
IncreaseMid(F) == Min(FactorMidCap, (F * 115) \div 100)

Sign(n) == IF n > 0 THEN 1 ELSE IF n < 0 THEN -1 ELSE 0

\* The factor, the low-speed counter and the boost flag after the three-way
\* classification of the sample s (lines 145-167), before the emergency boost.
Classified(s) ==
  IF s < LowSpeedThreshold
    THEN [F |-> IncreaseLow(sm_F), low |-> sm_low + 1, boost |-> TRUE]
    ELSE IF s >= HighSpeedThreshold
      THEN [F |-> DecreaseHigh(sm_F), low |-> 0, boost |-> FALSE]
      ELSE [F |-> IncreaseMid(sm_F), low |-> sm_low, boost |-> speedBoostMode]

\* updateSpeed(bytes), with the measured currentSpeed s as the input: the
\* classification, then the emergency boost of lines 170-174.
UpdateSpeed(s) ==
  LET c == Classified(s)
      emergency == c.low > EmergencyBoostAfter
      newF == IF emergency THEN FactorMax ELSE c.F
  IN /\ sm_speed' = s
     /\ sm_F' = newF
     /\ sm_low' = IF emergency THEN 0 ELSE c.low
     /\ speedBoostMode' = IF emergency THEN TRUE ELSE c.boost
     /\ sm_highRun' = IF s >= HighSpeedThreshold
                        THEN Min(HighRunCap, sm_highRun + 1) ELSE 0
     /\ sm_dir' = Sign(newF - sm_F)
     /\ sm_lowRun' = IF s < LowSpeedThreshold
                       THEN Min(LowRunCap, sm_lowRun + 1) ELSE 0

\* getCurrentSpeedMbps: (currentSpeed / 1000000).toFixed(1), in tenths of Mbps
GetCurrentSpeedMbps(s) == (s + 5) \div 10

\* getOptimalDelay (lines 177-185)
GetOptimalDelay(F, boost) ==
  Max(5, ((IF boost THEN 5 ELSE SPEED_STABILIZATION_DELAY) * 1000) \div F)

(***************************************************************************)
(* precisionDelay(ms): the delay handed to setTimeout (lines 419-448)      *)
(***************************************************************************)
PrecisionDelay(ms, F, s, boost) ==
  LET mbps == GetCurrentSpeedMbps(s)
      targetDelay ==
        IF mbps < 200 THEN Max(5, (ms * 1000) \div (F * 2))
        ELSE IF mbps >= 300 THEN Max(10, (ms * 1000) \div F)
        ELSE Max(8, (ms * 2000) \div (F * 3))
  IN IF boost THEN Max(5, targetDelay \div 2) ELSE targetDelay

(***************************************************************************)
(* retryOperation(operation, operationName, maxRetries = 5)                *)
(***************************************************************************)
NoErr == [kind |-> "none", wait |-> 0]
FloodErr(d) == [kind |-> "flood", wait |-> d]
OtherErr(k) == [kind |-> k, wait |-> 0]

\* if (attempt === maxRetries) throw error
RetriesExhausted_Early(attempt, maxRetries) == attempt + 1 >= maxRetries
RetriesExhausted(attempt, maxRetries) == attempt = maxRetries

\* the for statement's attempt++ and its test attempt <= maxRetries
NextAttempt(at) ==
  /\ ro_attempt' = ro_attempt + 1
  /\ ro_pc' = IF ro_attempt + 1 <= ro_maxRetries THEN at ELSE "fellThrough"

\* operation() returns: lines 456-461
RO_Success ==
  /\ ro_pc = "loop"
  /\ ro_calls' = ro_calls + 1
  /\ ro_pc' = "returned"
  /\ UNCHANGED <<ro_attempt, ro_maxRetries, ro_nTransient, ro_nFatal, ro_nFlood,
                 ro_nFloodOver, ro_lastErr, ro_slept>>
  /\ UNCHANGED <<speedVars, pipeVars, dmVars, ulVars, extVars>>

\* The tail of the catch block, lines 481-487: throw on the last attempt,
\* else sleep Math.min(500, 100 * attempt) and go round.
RO_ThrowOrBackoff ==
  IF RetriesExhausted(ro_attempt, ro_maxRetries)
    THEN /\ ro_pc' = "thrown"
         /\ UNCHANGED <<ro_attempt, ro_slept>>
    ELSE /\ ro_slept' = PrecisionDelay(Min(500, 100 * ro_attempt), sm_F,
                                       sm_speed, speedBoostMode)
         /\ NextAttempt("loop")

\* operation() throws an error whose message holds FLOOD_WAIT_<d>: lines 467-479,
\* then, for d > 300, the tail of the catch block.
RO_FailFlood(d) ==
  /\ ro_pc = "loop"
  /\ ro_calls' = ro_calls + 1
  /\ ro_lastErr' = FloodErr(d)
  /\ IF d <= RetryAfterCap
       THEN /\ ro_nFlood' = ro_nFlood + 1
            /\ ro_slept' = PrecisionDelay(d * 1000, sm_F, sm_speed, speedBoostMode)
            /\ NextAttempt("loop")     \* continue
            /\ UNCHANGED ro_nFloodOver
       ELSE /\ ro_nFloodOver' = ro_nFloodOver + 1
            /\ RO_ThrowOrBackoff
            /\ UNCHANGED ro_nFlood
  /\ UNCHANGED <<ro_maxRetries, ro_nTransient, ro_nFatal>>
  /\ UNCHANGED <<speedVars, pipeVars, dmVars, ulVars, extVars>>

\* operation() throws any other error: retryOperation does not tell a Fatal
\* error from a Transient one.
RO_FailOther(k) ==
  /\ ro_pc = "loop"
  /\ ro_calls' = ro_calls + 1
  /\ ro_lastErr' = OtherErr(k)
  /\ ro_nTransient' = ro_nTransient + (IF k = "transient" THEN 1 ELSE 0)
  /\ ro_nFatal' = ro_nFatal + (IF k = "fatal" THEN 1 ELSE 0)
  /\ RO_ThrowOrBackoff
  /\ UNCHANGED <<ro_maxRetries, ro_nFlood, ro_nFloodOver>>
  /\ UNCHANGED <<speedVars, pipeVars, dmVars, ulVars, extVars>>

InitSpeedMonitor ==
  /\ sm_F = FactorStart
  /\ sm_low = 0
  /\ sm_speed = 0
  /\ speedBoostMode = FALSE
  /\ sm_highRun = 0
  /\ sm_dir = 0
  /\ sm_lowRun = 0

InitRetryIdle ==
  /\ ro_pc = "idle"
  /\ ro_attempt = 1
  /\ ro_maxRetries = MaxRetriesArg
  /\ ro_calls = 0
  /\ ro_nTransient = 0
  /\ ro_nFatal = 0
  /\ ro_nFlood = 0
  /\ ro_nFloodOver = 0
  /\ ro_lastErr = NoErr
  /\ ro_slept = 0

(***************************************************************************)
(* The source, the sink and the checkpoint store                           *)
(***************************************************************************)
MaxId == 3                   \* the source holds the ids 1..MaxId
MESSAGE_LIMIT_CONFIG == 2    \* the page size (3000 in the source), scaled down
BATCH_SIZE == 2
MaxBatchRetries == 3         \* maxBatchRetries of the fetch worker
UploadRetriesSingle == 8     \* uploadMessage: isSingleFile ? 8 : 15
UploadRetriesBatch == 15
DownloadRetriesSingle == 8   \* downloadMessage: isSingleFile ? 8 : 15
DownloadRetriesBatch == 15
SmallBatchMax == 3           \* isSmallBatch: messages.length <= 3
HealthFull == 100            \* this.connectionHealth = 100
HealthGain == 5              \* a health check that passes
HealthLoss == 15             \* a health check that fails
HealthReconnectBelow == 50   \* if (this.connectionHealth < 50) reconnect
ReconnectLoss == 20          \* a reconnect that fails
MaxRuns == 3                 \* runs of one batch are counted up to here
ProcessedCap == 4            \* totalProcessedMessages is counted up to here

SourceIds == 1..MaxId

\* Math.max() of no argument, the offset a page without selected message yields
NegInfinity == -1
\* JSON.stringify writes -Infinity as null
JsonNull == -2

\* What an item carries: every fourth one is text only, the others have media.
Kind(id) == IF id % 4 = 0 THEN "text" ELSE "media"

\* The starting ids the user may enter in the mode "toEnd".
StartIds == {0, 2, MaxId + 1}
DownloadModes == {"full", "specific", "toEnd"}

\* getMessages(client, channelId, limit, offsetId, reverse = true): the first
\* limit ids after offsetId, oldest first.
Listing(offsetId) ==
  LET first == Max(offsetId, 0) + 1
      n == Min(messageLimit, Max(0, MaxId - first + 1))
  IN [k \in 1..n |-> first + k - 1]

\* The orders in which a collaborator may return n messages.
Orders(n) == {p \in [1..n -> 1..n] : \A a, b \in 1..n : a # b => p[a] # p[b]}
InOrder(s, p) == [k \in 1..Len(s) |-> s[p[k]]]

Range(s) == {s[k] : k \in 1..Len(s)}

\* array.sort((a, b) => a.id - b.id), used on messages and on downloaded records
RECURSIVE SortSet(_)
SortSet(S) ==
  IF S = {} THEN <<>>
  ELSE LET m == CHOOSE x \in S : \A y \in S : x <= y
       IN <<m>> \o SortSet(S \ {m})
SortById_Unsorted(s) == s
SortById(s) == SortSet(Range(s))

\* shouldProcess: with downloadableFiles.all set, whatever has content
ShouldProcess(id) == Kind(id) \in {"text", "media"}

\* messages.filter((msg) => msg.id >= this.startFromMessageId) in selective mode
FilteredMessages(msgs) ==
  IF selectiveMode
    THEN SelectSeq(msgs, LAMBDA id : id >= startFromMessageId)
    ELSE msgs

\* Math.max(...filteredMessages.map((m) => m.id))
MaxIdOf(msgs) ==
  IF Len(msgs) = 0 THEN NegInfinity
  ELSE CHOOSE x \in Range(msgs) : \A y \in Range(msgs) : y <= x

\* writeFileSync(LAST_SELECTION_FILE, last): the number as JSON holds it
JsonNumber(n) == IF n = NegInfinity THEN JsonNull ELSE n

\* lastSelection.messageOffsetId || 0
StoredOffset(st) == IF st = JsonNull THEN 0 ELSE st

\* if (this.selectiveMode && offsetMsgId === 0) offsetMsgId = this.startFromMessageId
EffectiveOffset_Always(offset) ==
  IF selectiveMode THEN startFromMessageId ELSE offset
EffectiveOffset(offset) ==
  IF selectiveMode /\ offset = 0 THEN startFromMessageId ELSE offset

\* The page size of a run and the rate budget of a process that made no request
InitExtIdle == InitRateIdle /\ InitBotIdle /\ messageLimit = MESSAGE_LIMIT_CONFIG

(***************************************************************************)
(* The state of a process that runs no pipeline                            *)
(***************************************************************************)
NoBatch ==
  /\ batch = <<>>
  /\ w_pc = <<>>
  /\ w_retry = <<>>
  /\ dm_attempt = <<>>
  /\ fetchDone = <<>>
  /\ downloadedData = <<>>
  /\ d_withPath = {}
  /\ d_failed = {}

NoUpload ==
  /\ currentIndex = 0
  /\ uploadStarted = {}
  /\ uploadCompleted = {}
  /\ uploadResults = <<>>
  /\ um_pc = <<>>
  /\ um_attempt = <<>>
  /\ deliverStarts = <<>>

NoHistory ==
  /\ selected = {}
  /\ fetchedOk = {}
  /\ fetchAttempted = {}
  /\ sinkCalled = {}
  /\ delivered = {}

\* The same, as the effect of an action
ResetBatch ==
  /\ batch' = <<>>
  /\ w_pc' = <<>>
  /\ w_retry' = <<>>
  /\ dm_attempt' = <<>>
  /\ fetchDone' = <<>>
  /\ downloadedData' = <<>>
  /\ d_withPath' = {}
  /\ d_failed' = {}

ResetUpload ==
  /\ currentIndex' = 0
  /\ uploadStarted' = {}
  /\ uploadCompleted' = {}
  /\ uploadResults' = <<>>
  /\ um_pc' = <<>>
  /\ um_attempt' = <<>>
  /\ deliverStarts' = <<>>

ResetHistory ==
  /\ selected' = {}
  /\ fetchedOk' = {}
  /\ fetchAttempted' = {}
  /\ sinkCalled' = {}
  /\ delivered' = {}

InitPipeline ==
  /\ store = 0
  /\ uploadMode = FALSE
  /\ selectiveMode = FALSE
  /\ startFromMessageId = 0
  /\ pc = "idle"
  /\ offsetMsgId = 0
  /\ runOffset = 0
  /\ messages = <<>>
  /\ toProcess = <<>>
  /\ batchStart = 0
  /\ totalMessages = 0
  /\ totalProcessedMessages = 0
  /\ NoBatch
  /\ NoUpload
  /\ NoHistory
  /\ justSaved = FALSE
  /\ connectionHealth = HealthFull
  /\ pb_runs = 0
  /\ cleanedUp = {}

(***************************************************************************)
(* configureDownload, then continuousMode's call of downloadChannel        *)
(***************************************************************************)
ConfigureDownload(mode, start, upload) ==
  LET messageOffsetId == StoredOffset(store)
  IN /\ pc = "idle"
     /\ selectiveMode' = (mode # "full")
     /\ startFromMessageId' = IF mode = "toEnd" THEN start ELSE 0
     /\ uploadMode' = upload
     /\ store' = messageOffsetId          \* updateLastSelection({messageOffsetId, channelId})
     /\ offsetMsgId' = messageOffsetId
     /\ runOffset' = messageOffsetId
     /\ pc' = "list"
     /\ messages' = <<>>
     /\ toProcess' = <<>>
     /\ batchStart' = 0
     /\ totalMessages' = 0
     /\ totalProcessedMessages' = 0
     /\ ResetBatch
     /\ ResetUpload
     /\ ResetHistory
     /\ justSaved' = FALSE
     /\ pb_runs' = 0
     /\ cleanedUp' = {}
     /\ UNCHANGED <<speedVars, retryVars, dmVars, ulVars, extVars, connectionHealth>>

(***************************************************************************)
(* downloadChannel: the page                                               *)
(***************************************************************************)
\* getMessages, the filter, getMessageDetail and shouldProcess, lines 1691-1745.
\* p is the order in which getMessageDetail returns the details.
DC_ListOk(p) ==
  LET offset == EffectiveOffset(offsetMsgId)
      page == Listing(offset)
      filtered == SortById(FilteredMessages(page))
      details == SortById(InOrder(filtered, p))
      todo == SelectSeq(details, ShouldProcess)
  IN /\ pc = "list"
     /\ p \in Orders(Len(FilteredMessages(page)))
     /\ offsetMsgId' = offset
     /\ messages' = page
     /\ IF Len(page) = 0
          THEN /\ pc' = "idle"
               /\ UNCHANGED <<toProcess, totalMessages, selected>>
          ELSE /\ toProcess' = todo
               /\ totalMessages' = Len(todo)
               /\ selected' = selected \cup Range(todo)
               /\ pc' = IF Len(todo) > 0 THEN "batch" ELSE "save"
     /\ batchStart' = 0
     /\ justSaved' = FALSE
     /\ UNCHANGED <<speedVars, retryVars, dmVars, ulVars, extVars, pbVars>>
     /\ UNCHANGED <<cfgVars, totalProcessedMessages, fetchVars, dataVars, upVars,
                    runOffset, fetchedOk, fetchAttempted, sinkCalled, delivered>>

\* A FLOOD_WAIT error leaves retryOperation: the catch of lines 1794-1802 waits
\* and calls downloadChannel again with the same offset.
DC_ListFlood ==
  /\ pc = "list"
  /\ offsetMsgId' = EffectiveOffset(offsetMsgId)
  /\ justSaved' = FALSE
  /\ UNCHANGED <<speedVars, retryVars, dmVars, ulVars, extVars, pbVars>>
  /\ UNCHANGED <<cfgVars, pc, messages, toProcess, batchStart, totalMessages,
                 totalProcessedMessages, fetchVars, dataVars, upVars, histVars>>

\* Any other error leaves downloadChannel (line 1805) and ends the run.
DC_ListError ==
  /\ pc = "list"
  /\ pc' = "idle"
  /\ offsetMsgId' = EffectiveOffset(offsetMsgId)
  /\ justSaved' = FALSE
  /\ UNCHANGED <<speedVars, retryVars, dmVars, ulVars, extVars, pbVars>>
  /\ UNCHANGED <<cfgVars, messages, toProcess, batchStart, totalMessages,
                 totalProcessedMessages, fetchVars, dataVars, upVars, histVars>>

\* lines 1770-1789: the checkpoint, then the next page or the end of the run
DC_Save ==
  LET maxId == MaxIdOf(FilteredMessages(messages))
  IN /\ pc = "save"
     /\ store' = JsonNumber(maxId)
     /\ justSaved' = TRUE
     /\ UNCHANGED <<speedVars, retryVars, dmVars, ulVars, extVars, pbVars>>
     /\ IF Len(messages) = messageLimit
          THEN /\ offsetMsgId' = maxId
               /\ pc' = "list"
          ELSE /\ pc' = "idle"
               /\ UNCHANGED offsetMsgId
     /\ UNCHANGED <<uploadMode, selectiveMode, startFromMessageId, messages,
                    toProcess, batchStart, totalMessages, totalProcessedMessages,
                    fetchVars, dataVars, upVars, histVars>>

(***************************************************************************)
(* processBatch and downloadBatch                                          *)
(***************************************************************************)
\* The batch loop's slice (line 1748), processBatch's refresh, which keeps the
\* ids, and downloadBatch up to the start of its workers (line 1236).
PB_Begin ==
  LET slice == SubSeq(toProcess, batchStart + 1,
                      Min(Len(toProcess), batchStart + BATCH_SIZE))
  IN /\ pc = "batch"
     /\ batch' = SortById(slice)
     /\ w_pc' = [k \in 1..Len(slice) |-> "run"]
     /\ w_retry' = [k \in 1..Len(slice) |-> 0]
     /\ dm_attempt' = [k \in 1..Len(slice) |-> 0]
     /\ fetchDone' = <<>>
     /\ pc' = "fetch"
     /\ ResetUpload
     /\ pb_runs' = 1
     /\ cleanedUp' = {}
     /\ justSaved' = FALSE
     /\ UNCHANGED <<speedVars, retryVars, dmVars, ulVars, extVars, connectionHealth>>
     /\ UNCHANGED <<cfgVars, pageVars, totalProcessedMessages, dataVars, histVars>>

\* One round of a worker that ends with a result: a text message needs no
\* fetch, a media message is fetched by downloadMessage (lines 1246-1293).
W_Ok(k) ==
  /\ pc = "fetch"
  /\ k \in DOMAIN w_pc
  /\ w_pc[k] = "run"
  /\ w_pc' = [w_pc EXCEPT ![k] = "ok"]
  /\ w_retry' = [w_retry EXCEPT ![k] = 0]
  /\ dm_attempt' = [dm_attempt EXCEPT ![k] = 0]
  /\ totalProcessedMessages' = Min(ProcessedCap, totalProcessedMessages + 1)
  /\ fetchDone' = Append(fetchDone, batch[k])
  /\ IF Kind(batch[k]) = "media"
       THEN /\ fetchAttempted' = fetchAttempted \cup {batch[k]}
            /\ fetchedOk' = fetchedOk \cup {batch[k]}
       ELSE UNCHANGED <<fetchAttempted, fetchedOk>>
  /\ justSaved' = FALSE
  /\ UNCHANGED <<speedVars, retryVars, dmVars, ulVars, extVars, pbVars>>
  /\ UNCHANGED <<cfgVars, pc, pageVars, batch, dataVars, upVars, runOffset,
                 selected, sinkCalled, delivered>>

\* downloadMessage's maxRetries: the worker passes isSingleFile || isSmallBatch
\* || isLastBatch as isSingleFile (lines 1203-1206, 1270, 586)
DownloadMaxRetries ==
  IF Len(batch) <= SmallBatchMax THEN DownloadRetriesSingle ELSE DownloadRetriesBatch

\* An attempt of downloadMessage fails and is not the last: downloadMessageMedia
\* returned false or the file is incomplete, the catch of lines 688-737 counts
\* the attempt and the loop goes round.
DM_Retry(k) ==
  /\ pc = "fetch"
  /\ k \in DOMAIN w_pc
  /\ w_pc[k] = "run"
  /\ Kind(batch[k]) = "media"
  /\ dm_attempt[k] + 1 < DownloadMaxRetries
  /\ dm_attempt' = [dm_attempt EXCEPT ![k] = @ + 1]
  /\ fetchAttempted' = fetchAttempted \cup {batch[k]}
  /\ justSaved' = FALSE
  /\ UNCHANGED <<speedVars, retryVars, dmVars, ulVars, extVars, pbVars>>
  /\ UNCHANGED <<cfgVars, pc, pageVars, totalProcessedMessages, batch, w_pc, w_retry,
                 fetchDone, dataVars, upVars, runOffset, selected, fetchedOk,
                 sinkCalled, delivered>>

\* retryCount++ in the catch of the worker, line 1296
NextRetryCount_Same(r) == r
NextRetryCount(r) == r + 1

\* The last attempt of downloadMessage fails and downloadMessage throws (line
\* 727): the catch of the worker, lines 1295-1329
W_Throw(k) ==
  /\ pc = "fetch"
  /\ k \in DOMAIN w_pc
  /\ w_pc[k] = "run"
  /\ Kind(batch[k]) = "media"
  /\ dm_attempt[k] + 1 >= DownloadMaxRetries
  /\ dm_attempt' = [dm_attempt EXCEPT ![k] = 0]
  /\ fetchAttempted' = fetchAttempted \cup {batch[k]}
  /\ IF NextRetryCount(w_retry[k]) < MaxBatchRetries
       THEN /\ w_retry' = [w_retry EXCEPT ![k] = NextRetryCount(@)]
            /\ UNCHANGED <<w_pc, fetchDone>>
       ELSE /\ w_retry' = [w_retry EXCEPT ![k] = 0]
            /\ w_pc' = [w_pc EXCEPT ![k] = "failed"]
            /\ fetchDone' = Append(fetchDone, batch[k])
  /\ justSaved' = FALSE
  /\ UNCHANGED <<speedVars, retryVars, dmVars, ulVars, extVars, pbVars>>
  /\ UNCHANGED <<cfgVars, pc, pageVars, totalProcessedMessages, batch, dataVars,
                 upVars, runOffset, selected, fetchedOk, sinkCalled, delivered>>

\* The end of a batch: i += BATCH_SIZE and the loop test of line 1747
AdvanceBatch ==
  /\ batchStart' = batchStart + BATCH_SIZE
  /\ pc' = IF batchStart + BATCH_SIZE < Len(toProcess) THEN "batch" ELSE "save"

\* await Promise.all(downloadPromises), line 1337: every worker has returned
PromiseAllSettled_Early == TRUE
PromiseAllSettled == \A k \in DOMAIN w_pc : w_pc[k] # "run"

\* results.filter((result) => result !== null), line 1340: a worker returns a
\* record when it fetched its message and a record with failed: true when its
\* three rounds failed, never null.
KeepsResult_DropFailed(outcome) == outcome = "ok"
KeepsResult(outcome) == outcome \in {"ok", "failed"}

\* Promise.all resolves: downloadBatch filters and sorts its records and returns
\* them (lines 1337-1351); processBatch goes on to the delivery phase when a
\* sink is configured and there are records (line 1510), else it is done.
DB_Collect ==
  LET kept == SelectSeq(batch, LAMBDA id :
                 \E k \in DOMAIN w_pc : batch[k] = id /\ KeepsResult(w_pc[k]))
      data == SortById(kept)
  IN /\ pc = "fetch"
     /\ PromiseAllSettled
     /\ downloadedData' = data
     /\ d_withPath' = {batch[k] : k \in {j \in DOMAIN w_pc :
                                          w_pc[j] = "ok" /\ Kind(batch[j]) = "media"}}
     /\ d_failed' = {batch[k] : k \in {j \in DOMAIN w_pc : w_pc[j] = "failed"}}
     /\ IF uploadMode /\ Len(data) > 0
          THEN /\ pc' = "health"
               /\ UNCHANGED batchStart
          ELSE AdvanceBatch
     /\ justSaved' = FALSE
     /\ UNCHANGED <<speedVars, retryVars, dmVars, ulVars, extVars, pbVars>>
     /\ UNCHANGED <<cfgVars, offsetMsgId, messages, toProcess, totalMessages,
                    totalProcessedMessages, fetchVars, upVars, histVars>>

(***************************************************************************)
(* processBatch: the connection check, the catch block and the re-run      *)
(***************************************************************************)
\* ensureConnectionHealth with reconnectClient (lines 495-532): the health it
\* leaves, and whether it throws (only a failed reconnect does).
EnsureConnectionHealth(h, getMeOk, reconnectOk) ==
  IF getMeOk
    THEN [health |-> Min(HealthFull, h + HealthGain), thrown |-> FALSE]
    ELSE LET low == Max(0, h - HealthLoss)
         IN IF low < HealthReconnectBelow
              THEN IF reconnectOk
                     THEN [health |-> HealthFull, thrown |-> FALSE]
                     ELSE [health |-> Max(0, low - ReconnectLoss), thrown |-> TRUE]
              ELSE [health |-> low, thrown |-> FALSE]

\* The start of uploadBatch, lines 1007-1033: the sort and the queue
EnterUploadBatch ==
  /\ pc' = "upload"
  /\ downloadedData' = SortById(downloadedData)
  /\ currentIndex' = 1
  /\ uploadStarted' = {}
  /\ uploadCompleted' = {}
  /\ uploadResults' = <<>>
  /\ um_pc' = [k \in 1..Len(downloadedData) |-> "idle"]
  /\ um_attempt' = [k \in 1..Len(downloadedData) |-> 0]
  /\ deliverStarts' = <<>>

\* await this.ensureConnectionHealth(client) of line 1514, then uploadBatch, or
\* the throw into the catch block of processBatch (line 1525)
PB_EnsureHealth(getMeOk, reconnectOk) ==
  LET r == EnsureConnectionHealth(connectionHealth, getMeOk, reconnectOk)
  IN /\ pc = "health"
     /\ connectionHealth' = r.health
     /\ IF r.thrown
          THEN /\ pc' = "catch"
               /\ UNCHANGED <<downloadedData, upVars>>
          ELSE /\ EnterUploadBatch
     /\ justSaved' = FALSE
     /\ UNCHANGED <<speedVars, retryVars, dmVars, ulVars, extVars, pb_runs, cleanedUp>>
     /\ UNCHANGED <<cfgVars, pageVars, totalProcessedMessages, fetchVars, d_withPath,
                    d_failed, histVars>>

\* What the catch block does after a run that threw: lines 1536-1538 re-run the batch
\* when the refresh returned messages and the connection check did not throw.
RerunsBatch_Never(refreshOk, thrown) == FALSE
RerunsBatch(refreshOk, thrown) == refreshOk /\ ~thrown

\* The catch block of processBatch, lines 1525-1549: refreshMessagesBatch, the
\* connection check, and the recursive processBatch up to the start of its
\* workers; every error in here is caught and logged (lines 1546-1547), and the
\* recursive call catches its own errors in the same way.
PB_Catch(refreshOk, getMeOk, reconnectOk) ==
  LET r == IF refreshOk
             THEN EnsureConnectionHealth(connectionHealth, getMeOk, reconnectOk)
             ELSE [health |-> connectionHealth, thrown |-> FALSE]
  IN /\ pc = "catch"
     /\ connectionHealth' = r.health
     /\ IF RerunsBatch(refreshOk, r.thrown)
          THEN /\ pc' = "fetch"
               /\ batch' = SortById(batch)
               /\ w_pc' = [k \in DOMAIN batch |-> "run"]
               /\ w_retry' = [k \in DOMAIN batch |-> 0]
               /\ dm_attempt' = [k \in DOMAIN batch |-> 0]
               /\ fetchDone' = <<>>
               /\ pb_runs' = Min(MaxRuns, pb_runs + 1)
               /\ UNCHANGED batchStart
          ELSE /\ AdvanceBatch
               /\ UNCHANGED <<fetchVars, pb_runs>>
     /\ justSaved' = FALSE
     /\ UNCHANGED <<speedVars, retryVars, dmVars, ulVars, extVars, cleanedUp>>
     /\ UNCHANGED <<cfgVars, offsetMsgId, messages, toProcess, totalMessages,
                    totalProcessedMessages, dataVars, upVars, histVars>>

(***************************************************************************)
(* uploadBatch and uploadMessage                                           *)
(***************************************************************************)
\* const maxRetries = isSingleFile ? 8 : 15, isSingleFile being
\* downloadedData.length === 1
UploadMaxRetries ==
  IF Len(downloadedData) = 1 THEN UploadRetriesSingle ELSE UploadRetriesBatch

\* await this.retryOperation(...) of line 1094: the loop goes on when the
\* uploadMessage call of record k has returned. uploadMessage catches every
\* error, so the operation never throws and retryOperation returns after one
\* invocation.
Awaited_NoAwait(k) == TRUE
Awaited(k) == um_pc[k] \in {"true", "false"}

\* uploadMessageToChannel returns false before any network call for a media
\* message without a local file (messages.js lines 318, 378-381)
NoLocalFile(id) == Kind(id) = "media" /\ id \notin d_withPath

\* The for statement of lines 1035-1039 after the body of record k, whatever the
\* body did: currentIndex++ and the test currentIndex < uploadQueue.length
LoopEnds_OnFailure(k) == k + 1 > Len(downloadedData) \/ um_pc[k] = "false"
LoopEnds(k) == k + 1 > Len(downloadedData)

\* The top of the loop body for record k = currentIndex, lines 1047-1094: the
\* wait for the previous record, whose timeout throws into the catch of lines
\* 1142-1183 (the current record is marked failed), else the start of delivery.
U_Start ==
  LET k == currentIndex
  IN /\ pc = "upload"
     /\ k \in DOMAIN um_pc
     /\ k \notin uploadStarted
     /\ k \notin uploadCompleted
     /\ IF k > 1 /\ (k - 1) \notin uploadCompleted
          THEN /\ uploadCompleted' = uploadCompleted \cup {k}
               /\ uploadResults' = Append(uploadResults,
                                          [id |-> downloadedData[k], success |-> FALSE])
               /\ currentIndex' = k + 1
               /\ pc' = IF LoopEnds(k) THEN "cleanup" ELSE "upload"
               /\ UNCHANGED <<uploadStarted, um_pc, um_attempt, deliverStarts>>
          ELSE /\ uploadStarted' = uploadStarted \cup {k}
               /\ deliverStarts' = Append(deliverStarts, downloadedData[k])
               /\ um_pc' = [um_pc EXCEPT ![k] = "loop"]
               /\ um_attempt' = [um_attempt EXCEPT ![k] = 0]
               /\ UNCHANGED <<uploadCompleted, uploadResults, currentIndex, pc>>
     /\ justSaved' = FALSE
     /\ UNCHANGED <<speedVars, retryVars, dmVars, ulVars, extVars, pbVars>>
     /\ UNCHANGED <<cfgVars, pageVars, totalProcessedMessages, fetchVars, dataVars,
                    histVars>>

\* Lines 1124-1141 and 1186-1190: the awaited call is back, the record is
\* marked completed and pushed as a success, the loop moves on.
U_Complete ==
  LET k == currentIndex
  IN /\ pc = "upload"
     /\ k \in uploadStarted
     /\ k \notin uploadCompleted
     /\ Awaited(k)
     /\ uploadCompleted' = uploadCompleted \cup {k}
     /\ uploadResults' = Append(uploadResults,
                                [id |-> downloadedData[k], success |-> TRUE])
     /\ currentIndex' = k + 1
     /\ pc' = IF LoopEnds(k) THEN "cleanup" ELSE "upload"
     /\ justSaved' = FALSE
     /\ UNCHANGED <<speedVars, retryVars, dmVars, ulVars, extVars, pbVars>>
     /\ UNCHANGED <<cfgVars, pageVars, totalProcessedMessages, fetchVars, dataVars,
                    uploadStarted, um_pc, um_attempt, deliverStarts, histVars>>

\* What uploadMessage does with a failure that is neither fatal nor a flood
\* wait, lines 813-841, given the attempt count after attempt++: go round, or
\* make the final call.
UM_AfterTransient(k, a, final) ==
  IF a < UploadMaxRetries
    THEN /\ um_pc' = [um_pc EXCEPT ![k] = "loop"]
         /\ um_attempt' = [um_attempt EXCEPT ![k] = a]
    ELSE /\ um_pc' = [um_pc EXCEPT ![k] = final]
         /\ um_attempt' = [um_attempt EXCEPT ![k] = 0]

\* uploadMessage calls uploadMessageToChannel, which returns false at once:
\* "Upload returned false" is thrown and caught; the final call returns false
\* as well.
UM_CallNoFile(k) ==
  /\ k \in DOMAIN um_pc
  /\ um_pc[k] = "loop"
  /\ NoLocalFile(downloadedData[k])
  /\ sinkCalled' = sinkCalled \cup {downloadedData[k]}
  /\ UM_AfterTransient(k, um_attempt[k] + 1, "false")
  /\ justSaved' = FALSE
  /\ UNCHANGED <<speedVars, retryVars, dmVars, ulVars, extVars, pbVars>>
  /\ UNCHANGED <<cfgVars, pc, pageVars, totalProcessedMessages, fetchVars, dataVars,
                 currentIndex, uploadStarted, uploadCompleted, uploadResults,
                 deliverStarts, runOffset, selected, fetchedOk, fetchAttempted,
                 delivered>>

\* uploadMessage calls uploadMessageToChannel, which sends to the target
UM_CallSink(k) ==
  /\ k \in DOMAIN um_pc
  /\ um_pc[k] = "loop"
  /\ ~NoLocalFile(downloadedData[k])
  /\ sinkCalled' = sinkCalled \cup {downloadedData[k]}
  /\ um_pc' = [um_pc EXCEPT ![k] = "inSink"]
  /\ justSaved' = FALSE
  /\ UNCHANGED <<speedVars, retryVars, dmVars, ulVars, extVars, pbVars>>
  /\ UNCHANGED <<cfgVars, pc, pageVars, totalProcessedMessages, fetchVars, dataVars,
                 currentIndex, uploadStarted, uploadCompleted, uploadResults,
                 um_attempt, deliverStarts, runOffset, selected, fetchedOk,
                 fetchAttempted, delivered>>

\* The sink accepts the message: lines 769-787, or 831-834 for the final call
UM_SinkOk(k) ==
  /\ k \in DOMAIN um_pc
  /\ um_pc[k] \in {"inSink", "finalSink"}
  /\ delivered' = delivered \cup {downloadedData[k]}
  /\ um_pc' = [um_pc EXCEPT ![k] = "true"]
  /\ um_attempt' = [um_attempt EXCEPT ![k] = 0]
  /\ justSaved' = FALSE
  /\ UNCHANGED <<speedVars, retryVars, dmVars, ulVars, extVars, pbVars>>
  /\ UNCHANGED <<cfgVars, pc, pageVars, totalProcessedMessages, fetchVars, dataVars,
                 currentIndex, uploadStarted, uploadCompleted, uploadResults,
                 deliverStarts, runOffset, selected, fetchedOk, fetchAttempted,
                 sinkCalled>>

\* The sink throws err in the loop: the catch of lines 791-842
UM_SinkFail(k, err) ==
  LET a == um_attempt[k] + 1
  IN /\ k \in DOMAIN um_pc
     /\ um_pc[k] = "inSink"
     /\ IF err = "fatal"
          THEN /\ um_pc' = [um_pc EXCEPT ![k] = "false"]
               /\ um_attempt' = [um_attempt EXCEPT ![k] = 0]
          ELSE IF err = "flood"
            THEN IF a < UploadMaxRetries
                   THEN /\ um_pc' = [um_pc EXCEPT ![k] = "loop"]
                        /\ um_attempt' = [um_attempt EXCEPT ![k] = a]
                   ELSE /\ um_pc' = [um_pc EXCEPT ![k] = "false"]
                        /\ um_attempt' = [um_attempt EXCEPT ![k] = 0]
            ELSE UM_AfterTransient(k, a, "finalSink")
     /\ justSaved' = FALSE
     /\ UNCHANGED <<speedVars, retryVars, dmVars, ulVars, extVars, pbVars>>
     /\ UNCHANGED <<cfgVars, pc, pageVars, totalProcessedMessages, fetchVars,
                    dataVars, currentIndex, uploadStarted, uploadCompleted,
                    uploadResults, deliverStarts, histVars>>

\* The final call throws: lines 835-840
UM_FinalFail(k) ==
  /\ k \in DOMAIN um_pc
  /\ um_pc[k] = "finalSink"
  /\ um_pc' = [um_pc EXCEPT ![k] = "false"]
  /\ justSaved' = FALSE
  /\ UNCHANGED <<speedVars, retryVars, dmVars, ulVars, extVars, pbVars>>
  /\ UNCHANGED <<cfgVars, pc, pageVars, totalProcessedMessages, fetchVars, dataVars,
                 currentIndex, uploadStarted, uploadCompleted, uploadResults,
                 um_attempt, deliverStarts, histVars>>

\* The sink call never settles: nothing bounds the await of line 761 or 824
UM_Hang(k) ==
  /\ k \in DOMAIN um_pc
  /\ um_pc[k] \in {"inSink", "finalSink"}
  /\ um_pc' = [um_pc EXCEPT ![k] = "hung"]
  /\ justSaved' = FALSE
  /\ UNCHANGED <<speedVars, retryVars, dmVars, ulVars, extVars, pbVars>>
  /\ UNCHANGED <<cfgVars, pc, pageVars, totalProcessedMessages, fetchVars, dataVars,
                 currentIndex, uploadStarted, uploadCompleted, uploadResults,
                 um_attempt, deliverStarts, histVars>>

\* The files cleanupBatch unlinks, lines 1360-1363: the mediaPath of every record
\* it is given that has one (the file exists: the worker verified it).
CleanupTargets_DeliveredOnly == {id \in Range(downloadedData) : id \in d_withPath /\ id \in delivered}
CleanupTargets == {id \in Range(downloadedData) : id \in d_withPath}

\* cleanupBatch, then the end of processBatch and of the loop body
CleanupBatch ==
  /\ pc = "cleanup"
  /\ cleanedUp' = CleanupTargets
  /\ AdvanceBatch
  /\ justSaved' = FALSE
  /\ UNCHANGED <<speedVars, retryVars, dmVars, ulVars, extVars, connectionHealth, pb_runs>>
  /\ UNCHANGED <<cfgVars, offsetMsgId, messages, toProcess, totalMessages,
                 totalProcessedMessages, fetchVars, dataVars, upVars, histVars>>

\* The process stops and is started again: what it held in memory is gone, the
\* checkpoint file stays.
Restart ==
  /\ pc # "idle"
  /\ pc' = "idle"
  /\ uploadMode' = FALSE
  /\ selectiveMode' = FALSE
  /\ startFromMessageId' = 0
  /\ offsetMsgId' = 0
  /\ runOffset' = 0
  /\ messages' = <<>>
  /\ toProcess' = <<>>
  /\ batchStart' = 0
  /\ totalMessages' = 0
  /\ totalProcessedMessages' = 0
  /\ ResetBatch
  /\ ResetUpload
  /\ ResetHistory
  /\ justSaved' = FALSE
  /\ connectionHealth' = HealthFull
  /\ pb_runs' = 0
  /\ cleanedUp' = {}
  /\ UNCHANGED <<speedVars, retryVars, dmVars, ulVars, extVars>>
  /\ UNCHANGED store

(***************************************************************************)
(* One worker of downloadBatch and its calls of downloadMessage, for one   *)
(* media message (lines 1236-1332 and 585-742)                             *)
(***************************************************************************)
MaxFetchCalls == 46
LadderTries == 8
RestoredAttempts == 3
SizeTolerancePercent == 95

\* fs.existsSync(mediaPath) is false
NoFile == -1

\* The hints of a message (document.size, else the first photo size, else 0,
\* lines 653-656) and the sizes a file can have on disk after a call of the
\* collaborator, in units in which a hint is 100
SizeHints == {0, 100}
FileSizes == {NoFile, 94, 95, 100, 300}

\* How client.downloadMedia ends in downloadMessageMedia (messages.js line 226)
FetchOutcomes == {"ok", "stale", "transient"}

\* downloadMessageMedia: true when the download ended without error; its catch
\* turns every error into false (messages.js lines 255-257)
DownloadMessageMedia(outcome) == outcome = "ok"

\* The messages of the errors that reach the catch of downloadMessage: lines
\* 681, 667 (with path.basename(mediaPath), which getMediaPath builds from
\* the file name the sender gave the document) and 721
MsgNone == ""
MsgVerification == "Download verification failed"
MsgAllFailed == "FILE_REFERENCE_EXPIRED: All refresh strategies failed"

MsgIncomplete(nameMarked) ==
  IF nameMarked THEN "Incomplete download: FILE_REFERENCE_EXPIRED_7.bin"
                ELSE "Incomplete download: file_7.bin"

\* error.message.includes("FILE_REFERENCE_EXPIRED"), line 689, on these messages
IncludesFileReferenceExpired(msg) == msg \in {MsgIncomplete(TRUE), MsgAllFailed}

\* const maxRetries = isSingleFile ? 8 : 15
DF_MaxRetries ==
  IF df_isSingleFile THEN DownloadRetriesSingle ELSE DownloadRetriesBatch

\* sizeVerified, lines 657-658
SizeVerified_Always(expectedSize, fileSize) == TRUE
SizeVerified(expectedSize, fileSize) ==
  expectedSize = 0 \/ fileSize * 100 >= expectedSize * SizeTolerancePercent

\* The tries of the first two rungs: attempt <= 3, attempt <= 6
SingleTries == 3
NeighbourTries == 3

\* The strategy refreshMessageWithStrategies uses for its parameter attempt
\* (lines 274, 282, 297): 1 the message alone, 2 the message and its
\* neighbours, 3 every message of the channel
Strategy(attempt) ==
  IF attempt <= SingleTries THEN 1
  ELSE IF attempt <= SingleTries + NeighbourTries THEN 2 ELSE 3

\* attempt = Math.max(0, attempt - 3), line 709
RestoredAttempt_Kept(attempt) == attempt
RestoredAttempt(attempt) == Max(0, attempt - RestoredAttempts)

\* The loop of the ladder after a refresh that gave a message: break, line 710
LadderGoesOn_AfterSuccess(ok, strategyAttempt) == strategyAttempt < LadderTries
LadderGoesOn(ok, strategyAttempt) == ~ok /\ strategyAttempt < LadderTries

InitDeliverIdle ==
  /\ ul_pc = "idle"
  /\ ul_isSingleFile = FALSE
  /\ ul_configured = FALSE
  /\ ul_attempt = 0
  /\ ul_lastErr = "none"
  /\ ul_calls = 0
  /\ ul_onlyTransient = TRUE

InitFetchIdle ==
  /\ df_pc = "idle"
  /\ df_isSingleFile = FALSE
  /\ df_nameMarked = FALSE
  /\ df_expectedSize = 0
  /\ df_attempt = 0
  /\ df_retryCount = 0
  /\ df_strategyAttempt = 0
  /\ df_onDisk = NoFile
  /\ df_thrown = MsgNone
  /\ df_calls = 0
  /\ df_onlyTransient = TRUE
  /\ df_lastOutcome = "none"
  /\ df_before = 0
  /\ df_ladderEnd = "none"
  /\ df_refreshLog = <<>>

\* A worker enters its loop for a media message and calls downloadMessage
\* (lines 1237-1270, 585-590)
InitFetch ==
  /\ InitSpeedMonitor
  /\ InitRetryIdle
  /\ InitPipeline
  /\ InitDeliverIdle /\ InitExtIdle
  /\ df_pc = "try"
  /\ df_isSingleFile \in BOOLEAN
  /\ df_nameMarked \in BOOLEAN
  /\ df_expectedSize \in SizeHints
  /\ df_attempt = 0
  /\ df_retryCount = 0
  /\ df_strategyAttempt = 0
  /\ df_onDisk = NoFile
  /\ df_thrown = MsgNone
  /\ df_calls = 0
  /\ df_onlyTransient = TRUE
  /\ df_lastOutcome = "none"
  /\ df_before = 0
  /\ df_ladderEnd = "none"
  /\ df_refreshLog = <<>>

\* The catch of downloadMessage for an error with message msg (lines 683-738),
\* up to the first refresh of the ladder: attempt++, then the ladder when the
\* message carries the marker, else throw at the last attempt or go round.
DF_Catch(msg) ==
  LET a == df_attempt + 1
  IN /\ df_attempt' = a
     /\ df_before' = df_attempt
     /\ IF IncludesFileReferenceExpired(msg)
          THEN /\ df_pc' = "ladder"
               /\ df_strategyAttempt' = 1
               /\ df_thrown' = MsgNone
          ELSE /\ df_pc' = IF a = DF_MaxRetries THEN "thrown" ELSE "try"
               /\ df_strategyAttempt' = 0
               /\ df_thrown' = IF a = DF_MaxRetries THEN msg ELSE MsgNone

\* One round of the while loop of downloadMessage, lines 591-738: a file left
\* at mediaPath is deleted (lines 598-611), downloadMessageMedia is called and
\* leaves onDisk at mediaPath, the result and the size are verified.
DF_Fetch(outcome, onDisk) ==
  LET result == DownloadMessageMedia(outcome)
      present == result /\ onDisk # NoFile
      incomplete == present /\ ~SizeVerified(df_expectedSize, onDisk)
                            /\ df_expectedSize > 0
  IN /\ df_pc = "try"
     /\ df_calls' = Min(MaxFetchCalls, df_calls + 1)
     /\ df_onlyTransient' = (df_onlyTransient /\ outcome = "transient")
     /\ df_lastOutcome' = IF incomplete THEN "incomplete" ELSE outcome
     /\ df_ladderEnd' = "none"
     /\ df_refreshLog' = <<>>
     /\ IF present /\ ~incomplete
          THEN /\ df_pc' = "returned"
               /\ df_onDisk' = onDisk
               /\ df_thrown' = MsgNone
               /\ UNCHANGED <<df_attempt, df_before, df_strategyAttempt>>
          ELSE /\ df_onDisk' = IF incomplete THEN NoFile ELSE onDisk
               /\ DF_Catch(IF incomplete THEN MsgIncomplete(df_nameMarked)
                                         ELSE MsgVerification)
     /\ UNCHANGED <<df_isSingleFile, df_nameMarked, df_expectedSize, df_retryCount>>
     /\ UNCHANGED <<speedVars, retryVars, pipeVars, ulVars, extVars>>

\* One refresh of the ladder, lines 695-726: refreshMessageWithStrategies is
\* called with strategyAttempt and gives a message (ok) or null.
DF_Refresh(ok) ==
  /\ df_pc = "ladder"
  /\ df_refreshLog' = Append(df_refreshLog,
                             [strategy |-> Strategy(df_strategyAttempt), ok |-> ok])
  /\ IF LadderGoesOn(ok, df_strategyAttempt)
       THEN /\ df_strategyAttempt' = df_strategyAttempt + 1
            /\ UNCHANGED <<df_pc, df_attempt, df_thrown, df_ladderEnd>>
       ELSE /\ df_strategyAttempt' = 0
            /\ df_ladderEnd' = IF ok THEN "ok" ELSE "failed"
            /\ df_attempt' = IF ok THEN RestoredAttempt(df_attempt) ELSE df_attempt
            /\ IF ~ok /\ df_attempt >= DF_MaxRetries
                 THEN /\ df_pc' = "thrown"
                      /\ df_thrown' = MsgAllFailed
                 ELSE /\ df_pc' = "try"
                      /\ df_thrown' = MsgNone
  /\ UNCHANGED <<df_isSingleFile, df_nameMarked, df_expectedSize, df_retryCount,
                 df_onDisk, df_calls, df_onlyTransient, df_lastOutcome, df_before>>
  /\ UNCHANGED <<speedVars, retryVars, pipeVars, ulVars, extVars>>

\* downloadMessage threw: the catch of the worker, lines 1295-1329, counts the
\* round and calls downloadMessage again or returns a record with failed: true.
DF_WorkerCatch ==
  /\ df_pc = "thrown"
  /\ df_retryCount' = df_retryCount + 1
  /\ df_pc' = IF df_retryCount + 1 < MaxBatchRetries THEN "try" ELSE "failed"
  /\ df_attempt' = 0
  /\ df_ladderEnd' = "none"
  /\ UNCHANGED <<df_isSingleFile, df_nameMarked, df_expectedSize, df_strategyAttempt,
                 df_onDisk, df_thrown, df_calls, df_onlyTransient, df_lastOutcome,
                 df_before, df_refreshLog>>
  /\ UNCHANGED <<speedVars, retryVars, pipeVars, ulVars, extVars>>

NextFetch ==
  \/ \E outcome \in FetchOutcomes, onDisk \in FileSizes : DF_Fetch(outcome, onDisk)
  \/ \E ok \in BOOLEAN : DF_Refresh(ok)
  \/ DF_WorkerCatch

SpecFetch == InitFetch /\ [][NextFetch]_vars /\ WF_vars(NextFetch)

(***************************************************************************)
(* One call of uploadMessage (lines 747-845)                               *)
(***************************************************************************)
\* How a call of uploadMessageToChannel ends: it returns true, it returns
\* false, or it throws an error that is Transient, a FLOOD_WAIT or
\* CHAT_FORWARDS_RESTRICTED
SinkOutcomes == {"ok", "false", "transient", "flood", "restricted"}

\* const maxRetries = isSingleFile ? 8 : 15
UL_MaxRetries ==
  IF ul_isSingleFile THEN UploadRetriesSingle ELSE UploadRetriesBatch

InitDeliver ==
  /\ InitSpeedMonitor
  /\ InitRetryIdle
  /\ InitPipeline
  /\ InitFetchIdle
  /\ InitExtIdle
  /\ ul_pc = "loop"
  /\ ul_isSingleFile \in BOOLEAN
  /\ ul_configured \in BOOLEAN
  /\ ul_attempt = 0
  /\ ul_lastErr = "none"
  /\ ul_calls = 0
  /\ ul_onlyTransient = TRUE

\* No sink is configured: return false, line 753
UL_NotConfigured ==
  /\ ul_pc = "loop"
  /\ ~ul_configured
  /\ ul_pc' = "false"
  /\ UNCHANGED <<ul_isSingleFile, ul_configured, ul_attempt, ul_lastErr, ul_calls,
                 ul_onlyTransient>>
  /\ UNCHANGED <<speedVars, retryVars, pipeVars, dmVars, extVars>>

\* One round of the while loop, lines 752-842: the call of
\* uploadMessageToChannel of line 761 and what follows from how it ends. A
\* fatal error returns false (797-798), a flood wait goes round (799-810) and
\* falls out of the loop at the limit (844), any other failure goes round
\* (813-819) or, at the limit, goes on to the final call (820-841).
UL_Call(outcome) ==
  LET a == ul_attempt + 1
  IN /\ ul_pc = "loop"
     /\ ul_configured
     /\ ul_calls' = ul_calls + 1
     /\ ul_onlyTransient' = (ul_onlyTransient /\ outcome = "transient")
     /\ IF outcome = "ok"
          THEN /\ ul_pc' = "true"
               /\ UNCHANGED <<ul_attempt, ul_lastErr>>
          ELSE /\ ul_attempt' = a
               /\ ul_lastErr' = outcome
               /\ ul_pc' = IF outcome = "restricted" THEN "false"
                           ELSE IF outcome = "flood"
                             THEN IF a < UL_MaxRetries THEN "loop" ELSE "false"
                           ELSE IF a < UL_MaxRetries THEN "loop" ELSE "final"
     /\ UNCHANGED <<ul_isSingleFile, ul_configured>>
     /\ UNCHANGED <<speedVars, retryVars, pipeVars, dmVars, extVars>>

\* The final call of lines 823-840: true when the sink accepts, else false
UL_FinalCall(outcome) ==
  /\ ul_pc = "final"
  /\ ul_calls' = ul_calls + 1
  /\ ul_onlyTransient' = (ul_onlyTransient /\ outcome = "transient")
  /\ ul_pc' = IF outcome = "ok" THEN "true" ELSE "false"
  /\ UNCHANGED <<ul_isSingleFile, ul_configured, ul_attempt, ul_lastErr>>
  /\ UNCHANGED <<speedVars, retryVars, pipeVars, dmVars, extVars>>

NextDeliver ==
  \/ UL_NotConfigured
  \/ \E outcome \in SinkOutcomes : UL_Call(outcome)
  \/ \E outcome \in SinkOutcomes : UL_FinalCall(outcome)

SpecDeliver == InitDeliver /\ [][NextDeliver]_vars

(***************************************************************************)
(* Spec: the pipeline                                                      *)
(***************************************************************************)
Init == InitPipeline /\ InitSpeedMonitor /\ InitRetryIdle /\ InitFetchIdle /\ InitDeliverIdle /\ InitExtIdle

Next ==
  \/ \E mode \in DownloadModes, start \in StartIds, upload \in BOOLEAN :
       ConfigureDownload(mode, start, upload)
  \/ \E p \in UNION {Orders(n) : n \in 0..MESSAGE_LIMIT_CONFIG} : DC_ListOk(p)
  \/ DC_ListFlood
  \/ DC_ListError
  \/ DC_Save
  \/ PB_Begin
  \/ \E k \in 1..BATCH_SIZE : W_Ok(k)
  \/ \E k \in 1..BATCH_SIZE : DM_Retry(k)
  \/ \E k \in 1..BATCH_SIZE : W_Throw(k)
  \/ DB_Collect
  \/ \E getMeOk, reconnectOk \in BOOLEAN : PB_EnsureHealth(getMeOk, reconnectOk)
  \/ \E refreshOk, getMeOk, reconnectOk \in BOOLEAN :
       PB_Catch(refreshOk, getMeOk, reconnectOk)
  \/ U_Start
  \/ U_Complete
  \/ \E k \in 1..BATCH_SIZE : UM_CallNoFile(k)
  \/ \E k \in 1..BATCH_SIZE : UM_CallSink(k)
  \/ \E k \in 1..BATCH_SIZE : UM_SinkOk(k)
  \/ \E k \in 1..BATCH_SIZE, err \in {"transient", "flood", "fatal"} : UM_SinkFail(k, err)
  \/ \E k \in 1..BATCH_SIZE : UM_FinalFail(k)
  \/ \E k \in 1..BATCH_SIZE : UM_Hang(k)
  \/ CleanupBatch
  \/ Restart


Spec == Init /\ [][Next]_vars

(***************************************************************************)
(* SpecSpeed: the speed controller under any stream of samples             *)
(***************************************************************************)
InitSpeed == InitSpeedMonitor /\ InitRetryIdle /\ InitPipeline /\ InitFetchIdle /\ InitDeliverIdle /\ InitExtIdle

NextSpeed ==
  \E s \in SpeedSamples : UpdateSpeed(s) /\ UNCHANGED <<retryVars, pipeVars, dmVars, ulVars, extVars>>

SpecSpeed == InitSpeed /\ [][NextSpeed]_vars

(***************************************************************************)
(* SpecRetry: one call of retryOperation, entered in any state of the      *)
(* speed controller that matters to precisionDelay                         *)
(***************************************************************************)
\* States of the speed controller a call of retryOperation may meet: the one
\* initializeSpeedMonitor leaves, and five that updateSpeed reaches from it:
\* after one low sample, after low samples up to the cap, after mid samples up
\* to the mid cap without and with a low sample before, and after high
\* samples down to the floor.
ControllerStates ==
  { [F |-> FactorStart, speed |-> 0, boost |-> FALSE],
    [F |-> IncreaseLow(FactorStart), speed |-> 1000, boost |-> TRUE],
    [F |-> FactorMax, speed |-> 1000, boost |-> TRUE],
    [F |-> FactorMidCap, speed |-> 2500, boost |-> FALSE],
    [F |-> FactorMidCap, speed |-> 2500, boost |-> TRUE],
    [F |-> FactorFloor, speed |-> 4000, boost |-> FALSE] }

InitRetry ==
  /\ \E c \in ControllerStates :
       /\ sm_F = c.F
       /\ sm_speed = c.speed
       /\ speedBoostMode = c.boost
  /\ sm_low = 0
  /\ sm_highRun = 0
  /\ sm_dir = 0
  /\ sm_lowRun = 0
  /\ ro_pc = "loop"
  /\ ro_attempt = 1
  /\ ro_maxRetries \in 1..MaxRetriesArg
  /\ ro_calls = 0
  /\ ro_nTransient = 0
  /\ ro_nFatal = 0
  /\ ro_nFlood = 0
  /\ ro_nFloodOver = 0
  /\ ro_lastErr = NoErr
  /\ ro_slept = 0
  /\ InitPipeline
  /\ InitFetchIdle /\ InitDeliverIdle /\ InitExtIdle

NextRetry ==
  \/ RO_Success
  \/ \E d \in FloodWaits : RO_FailFlood(d)
  \/ \E k \in {"transient", "fatal"} : RO_FailOther(k)

SpecRetry == InitRetry /\ [][NextRetry]_vars

(***************************************************************************)
(* The adaptive rate budget: updateFloodWaitHistory (lines 320-360),       *)
(* checkRateLimit (365-392) and ultraOptimizedWait (397-414)               *)
(***************************************************************************)
MaxHistory == 6
MaxRequests == 22
TickMinutes == 5

FreshMinutes == 10
RecentMinutes == 5
ClusterAbove == 3
MultCapCluster == 200
MultCapSingle == 150
MultFloor == 30
RateFloor == 20
RateCap == 100
RATE_LIMIT_DELAY_CONFIG == 20
OverBaseFloor == 2500
UnderBaseFloor == 500

\* Math.min(2.0, adaptiveDelayMultiplier * 1.5), lines 339-342
MultAfterCluster(m) == Min(MultCapCluster, (m * 15) \div 10)

\* Math.min(1.5, adaptiveDelayMultiplier * 1.2), lines 346-349
MultAfterSingle(m) == Min(MultCapSingle, (m * 12) \div 10)

\* Math.max(0.3, adaptiveDelayMultiplier * 0.95), lines 354-357
MultAfterCalm(m) == Max(MultFloor, (m * 95) \div 100)

\* Math.max(20, optimalRequestRate * 0.8), line 343
RateAfterCluster_NoFloor(r) == (r * 8) \div 10
RateAfterCluster(r) == Max(RateFloor, (r * 8) \div 10)

\* Math.min(100, optimalRequestRate * 1.05), line 358
RateAfterCalm(r) == Min(RateCap, (r * 105) \div 100)

\* The filters of lines 324-326 and 333-335 on the ages of the entries
Fresh(age) == age < FreshMinutes
Recent(age) == age < RecentMinutes

\* updateFloodWaitHistory(hadFloodWait, waitTime)
UpdateFloodWaitHistory(hadFloodWait) ==
  LET kept == SelectSeq(floodWaitHistory, Fresh)
      pushed == Append(kept, 0)
      recentFloodWaits == SelectSeq(pushed, Recent)
  IN /\ hadFloodWait => Len(kept) < MaxHistory
     /\ IF hadFloodWait
          THEN /\ floodWaitHistory' = pushed
               /\ IF Len(recentFloodWaits) > ClusterAbove
                    THEN /\ adaptiveDelayMultiplier' = MultAfterCluster(adaptiveDelayMultiplier)
                         /\ optimalRequestRate' = RateAfterCluster(optimalRequestRate)
                    ELSE IF Len(recentFloodWaits) = 1
                      THEN /\ adaptiveDelayMultiplier' = MultAfterSingle(adaptiveDelayMultiplier)
                           /\ UNCHANGED optimalRequestRate
                      ELSE UNCHANGED <<adaptiveDelayMultiplier, optimalRequestRate>>
          ELSE /\ floodWaitHistory' = kept
               /\ adaptiveDelayMultiplier' = MultAfterCalm(adaptiveDelayMultiplier)
               /\ optimalRequestRate' = RateAfterCalm(optimalRequestRate)
     /\ UNCHANGED <<requestsInLastMinute, rl_over, rl_slept, messageLimit, botVars>>
     /\ UNCHANGED coreVars

\* speedMonitor.getOptimalDelay (lines 177-185), in hundredths of a millisecond
OptimalDelayHundredths(F, boost) ==
  Max(500, ((IF boost THEN 5 ELSE SPEED_STABILIZATION_DELAY) * 100000) \div F)

\* ultraOptimizedWait(baseMs) with a speed monitor: the delay handed to
\* setTimeout, in hundredths of a millisecond (lines 405-413)
UltraOptimizedWait(base, F, boost) ==
  LET ultraMinimalDelay == Min(base \div 8, OptimalDelayHundredths(F, boost))
  IN IF boost THEN Max(100, ultraMinimalDelay \div 4) ELSE Max(500, ultraMinimalDelay)

\* The delay of checkRateLimit, lines 378-389, in hundredths of a millisecond:
\* over says whether requestsInLastMinute.length > optimalRequestRate
CheckRateLimitDelay(over, rate, mult, F, boost) ==
  UltraOptimizedWait(
    IF over THEN Max(OverBaseFloor, (60000 * mult) \div rate)
            ELSE Max(UnderBaseFloor, RATE_LIMIT_DELAY_CONFIG * mult),
    F, boost)

\* checkRateLimit: the request is counted, then the wait
CheckRateLimit ==
  LET n == requestsInLastMinute + 1
      over == n > optimalRequestRate
  IN /\ requestsInLastMinute < MaxRequests
     /\ requestsInLastMinute' = n
     /\ rl_over' = over
     /\ rl_slept' = CheckRateLimitDelay(over, optimalRequestRate,
                                        adaptiveDelayMultiplier, sm_F, speedBoostMode)
     /\ UNCHANGED <<adaptiveDelayMultiplier, optimalRequestRate, floodWaitHistory,
                    messageLimit, botVars>>
     /\ UNCHANGED coreVars

\* TickMinutes pass: the entries of the flood wait history age (an age at or
\* above FreshMinutes is kept as FreshMinutes)
FloodTick ==
  /\ \E i \in DOMAIN floodWaitHistory : Fresh(floodWaitHistory[i])
  /\ floodWaitHistory' = [i \in DOMAIN floodWaitHistory |->
                             Min(FreshMinutes, floodWaitHistory[i] + TickMinutes)]
  /\ UNCHANGED <<adaptiveDelayMultiplier, optimalRequestRate, requestsInLastMinute,
                 rl_over, rl_slept, messageLimit, botVars>>
  /\ UNCHANGED coreVars

\* A minute passes without a request: the filter of lines 369-371 drops every
\* timestamp at the next checkRateLimit
RequestsExpire ==
  /\ requestsInLastMinute > 0
  /\ requestsInLastMinute' = 0
  /\ UNCHANGED <<adaptiveDelayMultiplier, optimalRequestRate, floodWaitHistory,
                 rl_over, rl_slept, messageLimit, botVars>>
  /\ UNCHANGED coreVars

InitFlood ==
  /\ InitSpeedMonitor
  /\ InitRetryIdle
  /\ InitPipeline
  /\ InitFetchIdle
  /\ InitDeliverIdle
  /\ InitExtIdle

NextFlood ==
  \/ \E hadFloodWait \in BOOLEAN : UpdateFloodWaitHistory(hadFloodWait)
  \/ FloodTick

SpecFlood == InitFlood /\ [][NextFlood]_vars

\* States of the budget a call of checkRateLimit may meet: the one the
\* constructor leaves, and three that updateFloodWaitHistory reaches from it:
\* after one rate-limit event, after failure-free reports down to the floor
\* of the multiplier and up to the cap of the ceiling, and after clusters of
\* rate-limit events up to the cap of the multiplier and down to the floor of
\* the ceiling.
BudgetStates ==
  { [mult |-> 50, rate |-> 50],
    [mult |-> MultAfterSingle(50), rate |-> 50],
    [mult |-> MultFloor, rate |-> RateCap],
    [mult |-> MultCapCluster, rate |-> RateFloor] }

InitRate ==
  /\ \E c \in ControllerStates :
       /\ sm_F = c.F
       /\ sm_speed = c.speed
       /\ speedBoostMode = c.boost
  /\ sm_low = 0
  /\ sm_highRun = 0
  /\ sm_dir = 0
  /\ sm_lowRun = 0
  /\ InitRetryIdle
  /\ InitPipeline
  /\ InitFetchIdle
  /\ InitDeliverIdle
  /\ \E b \in BudgetStates :
       /\ adaptiveDelayMultiplier = b.mult
       /\ optimalRequestRate = b.rate
  /\ floodWaitHistory = <<>>
  /\ requestsInLastMinute = 0
  /\ rl_over = FALSE
  /\ rl_slept = 0
  /\ messageLimit = MESSAGE_LIMIT_CONFIG
  /\ InitBotIdle

NextRate ==
  \/ CheckRateLimit
  \/ RequestsExpire

SpecRate == InitRate /\ [][NextRate]_vars

(***************************************************************************)
(* Properties of the rate budget, checked under SpecFlood and SpecRate     *)
(***************************************************************************)
FloodReport ==
  floodWaitHistory' = Append(SelectSeq(floodWaitHistory, Fresh), 0)

CalmReport ==
  /\ floodWaitHistory' = SelectSeq(floodWaitHistory, Fresh)
  /\ UNCHANGED <<requestsInLastMinute, rl_over, rl_slept>>

\* C31: the ceiling optimalRequestRate stays within [20, 100]; a step lowers
\* it only if it reports a rate-limit event that leaves more than three
\* events of the last five minutes in the history, and a step raises it only
\* if it reports a failure-free operation.
C31_CeilingAdapts ==
  /\ [](optimalRequestRate >= 20 /\ optimalRequestRate <= 100)
  /\ [][ /\ optimalRequestRate' < optimalRequestRate =>
             /\ FloodReport
             /\ Len(SelectSeq(floodWaitHistory', Recent)) > 3
         /\ optimalRequestRate' > optimalRequestRate => CalmReport ]_vars

C31_Witness ==
  /\ optimalRequestRate = 20
  /\ Len(SelectSeq(floodWaitHistory, Recent)) > 3
  /\ adaptiveDelayMultiplier = 200

\* C37: a rate-limit event never relaxes the backoff: a step that reports one
\* leaves adaptiveDelayMultiplier at or above its value before and
\* optimalRequestRate at or below its value before.
C37_FloodNeverRelaxes ==
  [][FloodReport => /\ adaptiveDelayMultiplier' >= adaptiveDelayMultiplier
                    /\ optimalRequestRate' <= optimalRequestRate]_vars

\* C32: in a given state of the controller (stabilization factor, boost flag,
\* multiplier, ceiling) checkRateLimit sleeps strictly longer when the requests
\* of the last 60 s exceed the ceiling than when they do not: whenever the
\* last checkRateLimit found the window above the ceiling, its delay is above
\* the delay of the other branch in the same state.
C32_OverCeilingSleepsLonger ==
  rl_over => rl_slept > CheckRateLimitDelay(FALSE, optimalRequestRate,
                            adaptiveDelayMultiplier, sm_F, speedBoostMode)

(***************************************************************************)
(* RateLimiter: waitIfNeeded, addToQueue and processQueue (SpecLimiter)     *)
(***************************************************************************)
MaxClock == 13

\* waitIfNeeded of caller c, lines 10-21, up to its await or, with no wait, to
\* its return; retPc is where the caller stands after the return.
WaitIfNeeded(c, retPc) ==
  LET timeSinceLastMessage == lim_now - lastMessageTime
  IN IF timeSinceLastMessage < DelayMs
       THEN /\ lim_pc' = [lim_pc EXCEPT ![c] = "sleep"]
            /\ lim_wake' = [lim_wake EXCEPT ![c] = lim_now + (DelayMs - timeSinceLastMessage)]
            /\ UNCHANGED <<lastMessageTime, lim_returns>>
       ELSE /\ lastMessageTime' = lim_now
            /\ lim_returns' = Append(lim_returns, lim_now)
            /\ lim_pc' = [lim_pc EXCEPT ![c] = retPc]
            /\ UNCHANGED lim_wake

\* A caller calls waitIfNeeded directly
LIM_Call(c) ==
  /\ c \in DirectCallers
  /\ lim_pc[c] = "idle"
  /\ WaitIfNeeded(c, "idle")
  /\ UNCHANGED <<messageQueue, isProcessingQueue, lim_now>>
  /\ UNCHANGED <<coreVars, rlVars, messageLimit, sendVars, writeVars>>

\* The timer of the sleep of line 17 fires: line 20 and the return
LIM_Wake(c) ==
  /\ lim_pc[c] = "sleep"
  /\ lim_now >= lim_wake[c]
  /\ lastMessageTime' = lim_now
  /\ lim_returns' = Append(lim_returns, lim_now)
  /\ lim_pc' = [lim_pc EXCEPT ![c] = IF c = "q" THEN "run" ELSE "idle"]
  /\ UNCHANGED <<messageQueue, isProcessingQueue, lim_now, lim_wake>>
  /\ UNCHANGED <<coreVars, rlVars, messageLimit, sendVars, writeVars>>

\* addToQueue, lines 24-35: the push and processQueue, which returns at once
\* when the loop runs already (line 39), else shifts the entry and calls
\* waitIfNeeded (lines 43-51)
LIM_AddToQueue ==
  /\ messageQueue < Cardinality(Callers)
  /\ IF isProcessingQueue
       THEN /\ messageQueue' = messageQueue + 1
            /\ UNCHANGED <<isProcessingQueue, lastMessageTime, lim_pc, lim_wake,
                           lim_returns>>
       ELSE /\ isProcessingQueue' = TRUE
            /\ messageQueue' = messageQueue
            /\ WaitIfNeeded("q", "run")
  /\ UNCHANGED lim_now
  /\ UNCHANGED <<coreVars, rlVars, messageLimit, sendVars, writeVars>>

\* messageFunction is over and its promise settled (lines 53-58): the test of
\* the while loop, then the next entry or the finally block
LIM_QueueNext ==
  /\ lim_pc["q"] = "run"
  /\ IF messageQueue > 0
       THEN /\ messageQueue' = messageQueue - 1
            /\ WaitIfNeeded("q", "run")
            /\ UNCHANGED isProcessingQueue
       ELSE /\ isProcessingQueue' = FALSE
            /\ lim_pc' = [lim_pc EXCEPT !["q"] = "idle"]
            /\ UNCHANGED <<messageQueue, lastMessageTime, lim_wake, lim_returns>>
  /\ UNCHANGED lim_now
  /\ UNCHANGED <<coreVars, rlVars, messageLimit, sendVars, writeVars>>

\* A second passes; a timer that is due fires before the clock moves on
LIM_Tick ==
  /\ lim_now < MaxClock
  /\ \A c \in Callers : lim_pc[c] = "sleep" => lim_wake[c] > lim_now
  /\ lim_now' = lim_now + 1
  /\ UNCHANGED <<lastMessageTime, messageQueue, isProcessingQueue, lim_pc, lim_wake,
                 lim_returns>>
  /\ UNCHANGED <<coreVars, rlVars, messageLimit, sendVars, writeVars>>

InitLimiter ==
  /\ InitSpeedMonitor
  /\ InitRetryIdle
  /\ InitPipeline
  /\ InitFetchIdle
  /\ InitDeliverIdle
  /\ InitExtIdle

NextLimiter ==
  \/ \E c \in DirectCallers : LIM_Call(c)
  \/ \E c \in Callers : LIM_Wake(c)
  \/ LIM_AddToQueue
  \/ LIM_QueueNext
  \/ LIM_Tick

SpecLimiter == InitLimiter /\ [][NextLimiter]_vars

\* C38: RateLimiter spacing: any two returns from waitIfNeeded are at least
\* delayMs apart, also when several callers call it concurrently, directly and
\* through the queue.
C38_ReturnsSpaced ==
  \A i, j \in DOMAIN lim_returns :
    i < j => lim_returns[j] - lim_returns[i] >= DelayMs

(***************************************************************************)
(* The per-user send loop of the bot: sendRateLimitedMessage and           *)
(* processMessageQueue (SpecSend)                                          *)
(***************************************************************************)
MaxSent == 3

\* async function sendRateLimitedMessage(ctx, message, retries = 3)
DefaultRetries == 3

\* How ctx.reply settles: it resolves, or it rejects with system error -122,
\* with a 429, with a 403, with another error that has a message, or with a
\* value that has no message string (and an errno other than -122).
ReplyOutcomes == {"ok", "e122", "e429", "e403", "other", "noMessage"}

\* The catch block of lines 696-761 evaluates error.message.includes(...) as
\* soon as error.errno === -122 is false (line 698): a TypeError for a
\* rejection without a message string.
HandlerThrows(outcome) == outcome = "noMessage"

\* The three branches that put the entry back with one retry less (lines
\* 698-745); the last branch resolves the promise with false.
Requeued(outcome, retries) ==
  \/ outcome = "e122" /\ retries > 0
  \/ outcome = "e429" /\ retries > 0
  \/ retries > 0 /\ outcome # "e403"

\* sendRateLimitedMessage, lines 656-676, for a message that is no duplicate:
\* the push, then processMessageQueue up to its first await, which returns at
\* once when the user has a marker (line 680).
PMQ_Send ==
  /\ pmq_sent < MaxSent
  /\ pmq_sent' = pmq_sent + 1
  /\ userQueue' = Append(userQueue, [id |-> pmq_sent + 1, retries |-> DefaultRetries])
  /\ IF UserId \in processingQueue
       THEN UNCHANGED <<processingQueue, pmq_pc>>
       ELSE /\ processingQueue' = processingQueue \cup {UserId}
            /\ pmq_pc' = "loop"
  /\ UNCHANGED <<pmq_entry, pmq_settled>>
  /\ UNCHANGED <<coreVars, rlVars, messageLimit, limVars, writeVars>>

\* The test of the while loop (line 685): the shift and ctx.reply, or the end
\* of the loop and processingQueue.delete (line 764)
PMQ_Shift ==
  /\ pmq_pc = "loop"
  /\ IF Len(userQueue) > 0
       THEN /\ pmq_entry' = Head(userQueue)
            /\ userQueue' = Tail(userQueue)
            /\ pmq_pc' = "reply"
            /\ UNCHANGED processingQueue
       ELSE /\ processingQueue' = processingQueue \ {UserId}
            /\ pmq_pc' = "idle"
            /\ UNCHANGED <<pmq_entry, userQueue>>
  /\ UNCHANGED <<pmq_settled, pmq_sent>>
  /\ UNCHANGED <<coreVars, rlVars, messageLimit, limVars, writeVars>>

\* ctx.reply settles (lines 688-761): resolve(true) and the pause, or the
\* catch block, which throws out of processMessageQueue, puts the entry back
\* after its wait, or resolves the promise with false.
PMQ_Reply(outcome) ==
  /\ pmq_pc = "reply"
  /\ IF outcome = "ok"
       THEN /\ pmq_settled' = pmq_settled \cup {pmq_entry.id}
            /\ pmq_pc' = "loop"
            /\ UNCHANGED userQueue
       ELSE IF HandlerThrows(outcome)
         THEN /\ pmq_pc' = "threw"
              /\ UNCHANGED <<userQueue, pmq_settled>>
         ELSE IF Requeued(outcome, pmq_entry.retries)
           THEN /\ userQueue' = <<[pmq_entry EXCEPT !.retries = @ - 1]>> \o userQueue
                /\ pmq_pc' = "loop"
                /\ UNCHANGED pmq_settled
           ELSE /\ pmq_settled' = pmq_settled \cup {pmq_entry.id}
                /\ pmq_pc' = "loop"
                /\ UNCHANGED userQueue
  /\ UNCHANGED <<processingQueue, pmq_entry, pmq_sent>>
  /\ UNCHANGED <<coreVars, rlVars, messageLimit, limVars, writeVars>>

InitSend ==
  /\ InitSpeedMonitor
  /\ InitRetryIdle
  /\ InitPipeline
  /\ InitFetchIdle
  /\ InitDeliverIdle
  /\ InitExtIdle

NextSend ==
  \/ PMQ_Send
  \/ PMQ_Shift
  \/ \E outcome \in ReplyOutcomes : PMQ_Reply(outcome)

SpecSend == InitSend /\ [][NextSend]_vars

\* C39: the per-user send loop never wedges: whenever processMessageQueue is
\* not running for the user, whatever way it stopped, also by an error thrown
\* while a send failure was handled, the user has no marker in processingQueue.
C39_MarkerRemoved ==
  pmq_pc \in {"idle", "threw"} => UserId \notin processingQueue

(***************************************************************************)
(* ErrorHandler.retryWriteOperation and handleSystemError122 (SpecWrite)   *)
(***************************************************************************)
\* this.maxRetries = 3
EH_maxRetries == 3

\* How operation() settles: it resolves, it rejects with system error -122
\* (isSystemError122, lines 135-142), or it rejects with another error.
WriteOutcomes == {"ok", "e122", "other"}

\* handleSystemError122 gives up, line 148
GivesUp(currentAttempts) == currentAttempts >= EH_maxRetries

\* A caller calls retryWriteOperation(operation, chatId, id): line 114 reads
\* the count, line 117 invokes the operation.
RW_Call(id) ==
  /\ rw_pc[id] \in {"idle", "returned", "returnedNull", "threw"}
  /\ rw_pc' = [rw_pc EXCEPT ![id] = "running"]
  /\ rw_currentAttempts' = [rw_currentAttempts EXCEPT ![id] = retryAttempts[id]]
  /\ UNCHANGED retryAttempts
  /\ UNCHANGED <<coreVars, rlVars, messageLimit, limVars, sendVars>>

\* operation() settles, lines 116-131 and 145-176: the result is returned and
\* the entry deleted; system error -122 goes to handleSystemError122, which
\* gives up (deletes the entry, returns null) or counts and sleeps; every other
\* error is thrown on.
RW_Settle(id, outcome) ==
  /\ rw_pc[id] = "running"
  /\ IF outcome = "ok"
       THEN /\ retryAttempts' = [retryAttempts EXCEPT ![id] = 0]
            /\ rw_pc' = [rw_pc EXCEPT ![id] = "returned"]
       ELSE IF outcome = "e122"
         THEN IF GivesUp(rw_currentAttempts[id])
                THEN /\ retryAttempts' = [retryAttempts EXCEPT ![id] = 0]
                     /\ rw_pc' = [rw_pc EXCEPT ![id] = "returnedNull"]
                ELSE /\ retryAttempts' = [retryAttempts EXCEPT ![id] =
                                             rw_currentAttempts[id] + 1]
                     /\ rw_pc' = [rw_pc EXCEPT ![id] = "sleeping"]
         ELSE /\ rw_pc' = [rw_pc EXCEPT ![id] = "threw"]
              /\ UNCHANGED retryAttempts
  /\ UNCHANGED rw_currentAttempts
  /\ UNCHANGED <<coreVars, rlVars, messageLimit, limVars, sendVars>>

\* The sleep of line 180 is over: the recursive call of line 183 reads the
\* count again and invokes the operation; what it returns or throws is what
\* the outer call returns or throws.
RW_Retry(id) ==
  /\ rw_pc[id] = "sleeping"
  /\ rw_pc' = [rw_pc EXCEPT ![id] = "running"]
  /\ rw_currentAttempts' = [rw_currentAttempts EXCEPT ![id] = retryAttempts[id]]
  /\ UNCHANGED retryAttempts
  /\ UNCHANGED <<coreVars, rlVars, messageLimit, limVars, sendVars>>

InitWrite ==
  /\ InitSpeedMonitor
  /\ InitRetryIdle
  /\ InitPipeline
  /\ InitFetchIdle
  /\ InitDeliverIdle
  /\ InitExtIdle

NextWrite ==
  \/ \E id \in OpIds : RW_Call(id)
  \/ \E id \in OpIds, outcome \in WriteOutcomes : RW_Settle(id, outcome)
  \/ \E id \in OpIds : RW_Retry(id)

SpecWrite == InitWrite /\ [][NextWrite]_vars

\* C40: ErrorHandler retry bookkeeping: whenever retryWriteOperation has
\* completed for an operation id, by returning a result, by returning null
\* after the retries are exhausted, or by throwing, retryAttempts holds no
\* entry for that id.
C40_NoEntryAfterCompletion ==
  \A id \in OpIds :
    rw_pc[id] \in {"returned", "returnedNull", "threw"} => retryAttempts[id] = 0

(***************************************************************************)
(* Properties of retryOperation, checked under SpecRetry                   *)
(***************************************************************************)
\* C3: when every invocation of the operation failed with a Transient error,
\* retryOperation has invoked it at most maxRetries times, it goes on while
\* fewer invocations were made, and it has thrown to its caller exactly when
\* maxRetries invocations were made.
C3_BoundedRetries ==
  (ro_calls > 0 /\ ro_nTransient = ro_calls) =>
     /\ ro_pc \in {"loop", "thrown"}
     /\ ro_calls <= ro_maxRetries
     /\ (ro_pc = "thrown") <=> (ro_calls = ro_maxRetries)

C3_Witness ==
  /\ ro_pc = "thrown"
  /\ ro_maxRetries >= 5
  /\ ro_nTransient = ro_calls
  /\ ro_calls = ro_maxRetries

\* C4: rate-limited failures within the retry-after cap do not consume attempt
\* budget: retryOperation never runs out of attempts without a throw, and it
\* throws only when maxRetries Transient failures were met, however many
\* rate-limited responses came in between.
C4_RateLimitKeepsBudget ==
  (ro_nFloodOver = 0 /\ ro_nFatal = 0) =>
     /\ ro_pc # "fellThrough"
     /\ (ro_pc = "thrown" => ro_nTransient = ro_maxRetries)

\* C5: after a RateLimited(d) failure the delay slept before the next attempt
\* is at least min(d, retryAfterCap) seconds, in milliseconds here.
C5_FloodBackoffAtLeastRetryAfter ==
  (ro_pc = "loop" /\ ro_lastErr.kind = "flood") =>
     ro_slept >= Min(ro_lastErr.wait, RetryAfterCap) * 1000

\* C11: an operation that failed with a Fatal error is not invoked again:
\* retryOperation has thrown that error to its caller, after the one Fatal
\* failure.
C11_FatalNotRetried ==
  ro_nFatal > 0 =>
     /\ ro_pc = "thrown"
     /\ ro_lastErr.kind = "fatal"
     /\ ro_nFatal = 1

\* C34: retryOperation completes normally only with the result of a successful
\* invocation of the operation: a call that has ended without throwing has
\* ended in the return of line 461, after operation() returned.
C34_ReturnsOnlyAfterSuccess ==
  ro_pc \in {"returned", "fellThrough"} => ro_pc = "returned"

(***************************************************************************)
(* Properties of the speed controller, checked under SpecSpeed             *)
(***************************************************************************)
\* C8: in a run of consecutive samples at or above the high threshold no sample
\* increases the stabilization factor, the factor is at its floor once the run
\* is 20 samples long, and it stays there for every further high sample; the
\* factor is never below its floor.
C8_HighRunReachesFloor ==
  /\ sm_highRun >= 1 => sm_dir <= 0
  /\ sm_highRun >= 20 => sm_F = FactorFloor
  /\ sm_F >= FactorFloor

C8_Witness ==
  /\ sm_highRun > 20
  /\ sm_F = FactorFloor
  /\ sm_dir = 0

\* C21: after any sequence of samples the stabilization factor lies within
\* [2.0, 5.0].
C21_FactorWithinBounds == sm_F >= FactorFloor /\ sm_F <= FactorMax

C21_Witness ==
  /\ sm_F = FactorMax
  /\ sm_speed < LowSpeedThreshold
  /\ sm_lowRun >= 2
  /\ sm_dir = 0

\* The last sample was between the thresholds
MidSample == sm_speed >= LowSpeedThreshold /\ sm_speed < HighSpeedThreshold

\* C29: a sample between the low and the high threshold never decreases the
\* stabilization factor.
C29_MidNeverDecreases == MidSample => sm_dir >= 0

\* The last call of updateSpeed ended in the emergency boost of lines 170-174:
\* only there a sample below the low threshold leaves the counter at 0.
EmergencyFired == sm_speed < LowSpeedThreshold /\ sm_lowRun > 0 /\ sm_low = 0

\* C30: the emergency boost fires only when more than 3 samples in a row were
\* below the low threshold.
C30_EmergencyOnlyAfterLowRun == EmergencyFired => sm_lowRun > EmergencyBoostAfter

(***************************************************************************)
(* Properties of downloadMessage and its worker, checked under SpecFetch   *)
(***************************************************************************)
\* C22: when the collaborator's fetch of an item failed with a stale-reference
\* error, the refresh ladder has run for the item before its next fetch
\* attempt starts: no attempt starts right after a stale failure with no
\* ladder run in between.
C22_StaleRunsLadder ==
  (df_pc = "try" /\ df_lastOutcome = "stale") => df_ladderEnd # "none"

\* C23: within one ladder run the refresh calls go single-item (1), then
\* neighbourhood (2), then whole-collection (3): the run starts with the
\* single-item refresh, the neighbourhood refresh is called only after the
\* three tries of the single-item one, the whole-collection refresh only after
\* the three tries of the neighbourhood one, every call before the last one
\* of the run failed (no refresh call follows a successful one), and a run
\* makes at most eight calls.
C23_LadderOrder ==
  /\ Len(df_refreshLog) <= LadderTries
  /\ \A i \in 1..Len(df_refreshLog) :
       /\ df_refreshLog[i].strategy = 1 <=> i <= 3
       /\ df_refreshLog[i].strategy = 2 <=> (i > 3 /\ i <= 6)
       /\ df_refreshLog[i].strategy = 3 <=> i > 6
       /\ i < Len(df_refreshLog) => ~df_refreshLog[i].ok

C23_Witness ==
  /\ df_ladderEnd = "ok"
  /\ Len(df_refreshLog) = 7
  /\ df_refreshLog[7].strategy = 3
  /\ df_refreshLog[7].ok

DownloadMessageEnded == df_pc \in {"returned", "thrown", "failed"}

\* C25: stale-reference recovery is bounded: whatever the failures of the fetch
\* and the outcomes of the refresh calls, a call of downloadMessage that starts
\* a fetch attempt ends, by returning or by throwing.
C25_FetchCallEnds == (df_pc = "try") ~> DownloadMessageEnded

C27_FetchAttemptBound ==
  (df_pc = "failed" /\ df_onlyTransient) => df_calls = DF_MaxRetries

(***************************************************************************)
(* Properties of uploadMessage, checked under SpecDeliver                  *)
(***************************************************************************)
\* C28: for an item whose every delivery attempt fails with a Transient error,
\* uploadMessage has called the sink exactly maxRetries times (its retry
\* limit) when it reports failure.
C28_DeliveryAttemptBound ==
  (ul_pc = "false" /\ ul_configured /\ ul_onlyTransient) => ul_calls = UL_MaxRetries

(***************************************************************************)
(* Properties of the pipeline, checked under Spec                          *)
(***************************************************************************)
\* C1: the records of a batch start their delivery in strictly ascending order
\* of id, whatever the order in which the fetches of the batch completed.
C1_DeliveryOrder ==
  \A i, j \in 1..Len(deliverStarts) :
     i < j => deliverStarts[i] < deliverStarts[j]

C1_Witness ==
  /\ Len(deliverStarts) >= 2
  /\ Len(fetchDone) >= 2
  /\ fetchDone[1] > fetchDone[2]

\* C2: the persisted checkpoint, as configureDownload reads it back, never
\* decreases over pages, batches, runs and restarts, in every download mode.
C2_CheckpointMonotonic ==
  [][StoredOffset(store') >= StoredOffset(store)]_vars

\* C6: while the delivery of a record that has a successor hangs, the delivery
\* loop is not blocked: it can record the hung record and start the next one.
C6_StuckItemDoesNotBlock ==
  \A k \in DOMAIN um_pc :
     (pc = "upload" /\ um_pc[k] = "hung" /\ k < Len(downloadedData)) =>
        ENABLED (U_Start \/ U_Complete)

\* C7: a run that resumes from the persisted checkpoint N fetches no item and
\* hands no item to the sink whose id is at most N.
C7_IdempotentResume ==
  \A id \in selected \cup fetchAttempted \cup sinkCalled : id > runOffset

C7_Witness ==
  /\ runOffset > 0
  /\ selectiveMode
  /\ fetchAttempted # {}
  /\ sinkCalled # {}

\* C9: when a checkpoint N has just been saved, every item of id at most N that
\* the run selected has been fetched if it has media, and delivered if a sink
\* is configured.
C9_CheckpointMeaning ==
  justSaved =>
     \A id \in selected :
        id <= StoredOffset(store) =>
           /\ Kind(id) = "media" => id \in fetchedOk
           /\ uploadMode => id \in delivered

\* A call of uploadMessage for record k that has not returned
InFlight(k) == um_pc[k] \in {"loop", "inSink", "finalSink", "hung"}

HealthLevels == {HealthFull, HealthReconnectBelow}

\* configureDownload in mode full on a store without checkpoint, then the first
\* page listed by downloadChannel, up to the batch loop (line 1747)
FirstPageListed ==
  /\ InitSpeedMonitor
  /\ InitRetryIdle
  /\ InitFetchIdle /\ InitDeliverIdle
  /\ store = 0
  /\ uploadMode \in BOOLEAN
  /\ selectiveMode = FALSE
  /\ startFromMessageId = 0
  /\ pc = "batch"
  /\ offsetMsgId = 0
  /\ runOffset = 0
  /\ messages = Listing(0)
  /\ toProcess = SelectSeq(SortById(Listing(0)), ShouldProcess)
  /\ batchStart = 0
  /\ totalMessages = Len(SelectSeq(SortById(Listing(0)), ShouldProcess))
  /\ totalProcessedMessages = 0
  /\ NoBatch
  /\ NoUpload
  /\ selected = Range(SelectSeq(SortById(Listing(0)), ShouldProcess))
  /\ fetchedOk = {}
  /\ fetchAttempted = {}
  /\ sinkCalled = {}
  /\ delivered = {}
  /\ justSaved = FALSE
  /\ connectionHealth \in HealthLevels
  /\ pb_runs = 0
  /\ cleanedUp = {}

InitBatch == InitExtIdle /\ FirstPageListed

\* The connection check of line 1514 in an environment whose connection fails
\* a bounded number of times: it throws only in a run before the MaxRuns-th.
PB_EnsureHealthWithin(getMeOk, reconnectOk) ==
  /\ EnsureConnectionHealth(connectionHealth, getMeOk, reconnectOk).thrown =>
        pb_runs < MaxRuns
  /\ PB_EnsureHealth(getMeOk, reconnectOk)

\* Every step of a batch but a sink call that never settles and the end of the
\* process
NextBatch ==
  \/ PB_Begin
  \/ \E k \in 1..BATCH_SIZE : W_Ok(k)
  \/ \E k \in 1..BATCH_SIZE : DM_Retry(k)
  \/ \E k \in 1..BATCH_SIZE : W_Throw(k)
  \/ DB_Collect
  \/ \E getMeOk, reconnectOk \in BOOLEAN : PB_EnsureHealthWithin(getMeOk, reconnectOk)
  \/ \E refreshOk, getMeOk, reconnectOk \in BOOLEAN :
       PB_Catch(refreshOk, getMeOk, reconnectOk)
  \/ U_Start
  \/ U_Complete
  \/ \E k \in 1..BATCH_SIZE : UM_CallNoFile(k)
  \/ \E k \in 1..BATCH_SIZE : UM_CallSink(k)
  \/ \E k \in 1..BATCH_SIZE : UM_SinkOk(k)
  \/ \E k \in 1..BATCH_SIZE, err \in {"transient", "flood", "fatal"} : UM_SinkFail(k, err)
  \/ \E k \in 1..BATCH_SIZE : UM_FinalFail(k)
  \/ CleanupBatch

\* Each call returns or throws, and the program goes on after it
SpecBatch == InitBatch /\ [][NextBatch]_vars /\ WF_vars(NextBatch)

(***************************************************************************)
(* SpecPage: the batches of a first page that holds more messages than one *)
(* batch, up to the save of the checkpoint                                 *)
(***************************************************************************)
WidePage == MESSAGE_LIMIT_CONFIG + 1

InitPage == InitRateIdle /\ InitBotIdle /\ messageLimit = WidePage /\ FirstPageListed

NextPage ==
  \/ NextBatch
  \/ DC_Save

SpecPage == InitPage /\ [][NextPage]_vars

(***************************************************************************)
(* Properties of one batch, checked under Spec                             *)
(***************************************************************************)
\* downloadBatch has returned for the batch that is held
Collected == pc # "fetch" /\ batch # <<>>

\* C12: a failed fetch stays with its item: when downloadBatch has returned,
\* every worker has ended, there is one record for each item of the batch, the
\* items whose rounds all failed are the records marked failed, every other
\* media item is fetched and has its file, and the catch block of processBatch
\* is entered only after downloadBatch returned its records to a run with a sink.
C12_FetchFailureStaysPerItem ==
  Collected =>
     /\ \A k \in DOMAIN w_pc : w_pc[k] \in {"ok", "failed"}
     /\ Range(downloadedData) = Range(batch)
     /\ Len(downloadedData) = Len(batch)
     /\ d_failed = {batch[k] : k \in {j \in DOMAIN w_pc : w_pc[j] = "failed"}}
     /\ \A k \in DOMAIN w_pc :
           (w_pc[k] = "ok" /\ Kind(batch[k]) = "media") =>
              batch[k] \in fetchedOk /\ batch[k] \in d_withPath
     /\ pc = "catch" => uploadMode /\ Len(downloadedData) > 0

C12_Witness ==
  /\ Collected
  /\ Len(batch) = 2
  /\ d_failed = {batch[1]}
  /\ batch[2] \in fetchedOk
  /\ batch[2] \in d_withPath

\* C13: a record whose delivery failed (its uploadMessage call returned false)
\* is recorded as failed in the results of uploadBatch.
C13_FailedDeliveryRecordedFailed ==
  \A i \in DOMAIN uploadResults :
     \A k \in DOMAIN um_pc :
        (downloadedData[k] = uploadResults[i].id /\ um_pc[k] = "false") =>
           ~uploadResults[i].success

\* C14: delivery goes on past a failure: a record whose delivery failed does
\* not stop the loop, and when uploadBatch has gone through its queue the
\* delivery of every record of the batch was started, and the results hold
\* exactly one entry for each record, in the order of the queue.
C14_DeliveryContinuesPastFailure ==
  /\ pc = "upload" =>
        \A k \in DOMAIN um_pc :
           (um_pc[k] = "false" /\ k \in uploadCompleted) => currentIndex = k + 1
  /\ pc = "cleanup" =>
        /\ deliverStarts = downloadedData
        /\ Len(uploadResults) = Len(downloadedData)
        /\ \A i \in DOMAIN uploadResults : uploadResults[i].id = downloadedData[i]

C14_Witness ==
  /\ pc = "cleanup"
  /\ Len(downloadedData) = 2
  /\ um_pc[1] = "false"
  /\ um_pc[2] = "true"
  /\ Len(uploadResults) = 2

\* processBatch has returned to the batch loop of downloadChannel
BatchDone == pc \in {"batch", "save"}

C16_AtMostOneRerun == pb_runs <= 2

\* C17: when the re-run of a batch has failed as well, processBatch does not
\* return normally to the batch loop of downloadChannel: the step that leaves
\* the catch block of a re-run does not go on to the next batch or to the
\* checkpoint.
C17_RerunFailurePropagates ==
  [][(pc = "catch" /\ pb_runs >= 2) => pc' \notin {"batch", "save"}]_vars

\* C18: with a sink, cleanupBatch deletes the file of a record only if the
\* record was delivered.
C18_CleanupOnlyDelivered == uploadMode => cleanedUp \subseteq delivered

\* C19: no record whose fetch ended as failed is started by the delivery queue.
C19_OnlyFetchedQueued == d_failed \cap Range(deliverStarts) = {}

\* C20: the phases of a batch follow each other: while a worker of the batch
\* runs no delivery has started, a file is cleaned up only when every delivery
\* of the batch has returned and is marked completed, and without a sink there
\* is no health check, no delivery and no cleanup at all.
C20_PhaseOrder ==
  /\ (\E k \in DOMAIN w_pc : w_pc[k] = "run") =>
        /\ pc = "fetch"
        /\ deliverStarts = <<>>
        /\ uploadStarted = {}
        /\ cleanedUp = {}
  /\ (pc = "cleanup" \/ cleanedUp # {}) =>
        /\ uploadCompleted = DOMAIN um_pc
        /\ \A k \in DOMAIN um_pc : um_pc[k] \in {"true", "false"}
  /\ ~uploadMode =>
        /\ pc \notin {"health", "catch", "upload", "cleanup"}
        /\ deliverStarts = <<>>
        /\ sinkCalled = {}
        /\ delivered = {}
        /\ cleanedUp = {}

C20_Witness ==
  /\ Len(batch) = 2
  /\ Len(deliverStarts) = 2
  /\ cleanedUp # {}
  /\ BatchDone

\* C33: the checkpoint is saved after each batch completes: when a batch of a
\* page has completed and the next batch of the run is about to start, the
\* last step was the save of the checkpoint.
C33_SaveAfterEachBatch ==
  (pc = "batch" /\ batchStart > 0) => justSaved

\* C36: progress accounting: at every point of a pipeline run, over several
\* pages and any re-run of a batch, the counter of processed messages never
\* exceeds the counter of messages to process.
C36_ProcessedWithinTotal ==
  totalProcessedMessages <= totalMessages

\* C35: at-most-once delivery: within one pipeline run no message is accepted by
\* the sink a second time, whatever uploadMessage retries, whatever uploadBatch
\* does after a failure and whichever batch processBatch runs again: a step in
\* which the sink accepts the message of a record is a step for a message that
\* was not delivered before in this run.
C35_AtMostOnceDelivery ==
  [][ \A k \in DOMAIN um_pc :
        ( /\ k \in DOMAIN um_pc'
          /\ um_pc[k] \in {"inSink", "finalSink"}
          /\ um_pc'[k] = "true" )
        => downloadedData[k] \notin delivered ]_vars

C35_Witness ==
  /\ pb_runs >= 2
  /\ pc = "cleanup"
  /\ delivered = Range(downloadedData)
  /\ Len(downloadedData) = 2

====
